---- MODULE Spec2Model ----
(***************************************************************************)
(* Personal-Secretary: the button-driven Telegram front-end (bot.py) over  *)
(* the Notion record store adapter (notion_service.py).                    *)
(*                                                                         *)
(* Strings are sequences of atoms.  An atom is a piece of text that none   *)
(* of the program's string operations cuts: the separator "_", a keyword   *)
(* ("course", "edit", ...), a numeral, a blank, or a whole user-typed      *)
(* phrase.  str.replace, str.startswith, str.split and str.strip are then  *)
(* the usual operations on sequences.                                      *)
(***************************************************************************)
EXTENDS Integers, Sequences, FiniteSets, TLC

VARIABLES
    state,      \* ConversationHandler: conversation key (chat, user) -> state
    user_data,  \* context.user_data: user -> dict (the session scratch)
    msgs,       \* chat -> the messages that still carry a keyboard, least
                \*         recently displayed first
    kept,       \* how many of a chat's latest messages the user still
                \*         presses buttons of (fixed through a run)
    db,         \* the Notion workspace: collection -> list of pages
    writes,     \* remote writes the workspace has taken so far
    ev,         \* what the last handled update did (calls, reply, error)
    op,         \* the last operation called on an adapter, and its outcome
    dispatch    \* bot_mcp.py: the dispatch loop of call_claude_with_mcp

vars == <<state, user_data, msgs, kept, db, writes, ev, op, dispatch>>

-----------------------------------------------------------------------------
(* Bounds of the model *)

\* messages per chat whose keyboards can still be pressed
MaxMsgs == 2
\* remote writes the workspace takes in one run (later ones fail)
MaxWrites == 1

-----------------------------------------------------------------------------
(* Python string operations *)

StartsWith(s, p) ==
    /\ Len(s) >= Len(p)
    /\ SubSeq(s, 1, Len(p)) = p

\* str.replace(old, new): every non-overlapping occurrence, left to right
RECURSIVE Replace(_, _, _)
Replace(s, old, new) ==
    IF s = <<>> THEN <<>>
    ELSE IF StartsWith(s, old)
         THEN new \o Replace(SubSeq(s, Len(old) + 1, Len(s)), old, new)
         ELSE <<Head(s)>> \o Replace(Tail(s), old, new)

\* str.split("_", maxsplit): the list of parts
RECURSIVE Split(_, _)
Split(s, maxsplit) ==
    LET idx == {i \in 1..Len(s) : s[i] = "_"}
    IN  IF maxsplit = 0 \/ idx = {} THEN <<s>>
        ELSE LET i == CHOOSE j \in idx : \A j2 \in idx : j <= j2
             IN  <<SubSeq(s, 1, i - 1)>> \o Split(SubSeq(s, i + 1, Len(s)), maxsplit - 1)

\* str.strip(): leading and trailing blanks removed
RECURSIVE LStrip(_)
LStrip(s) == IF s # <<>> /\ Head(s) = " " THEN LStrip(Tail(s)) ELSE s

RECURSIVE RStrip(_)
RStrip(s) ==
    IF s # <<>> /\ s[Len(s)] = " " THEN RStrip(SubSeq(s, 1, Len(s) - 1)) ELSE s

Strip(s) == RStrip(LStrip(s))

\* str.upper() on the atoms user input is drawn from
Upper(s) ==
    [i \in 1..Len(s) |->
        CASE s[i] = "cs101" -> "CS101"
          [] s[i] = "phy202" -> "PHY202"
          [] OTHER -> s[i]]

\* the value of a decimal numeral atom; -1 when the atom is no numeral
NumeralTable ==
    << <<"0", 0>>, <<"00", 0>>, <<"1", 1>>, <<"01", 1>>, <<"2", 2>>, <<"02", 2>>,
       <<"3", 3>>, <<"03", 3>>, <<"4", 4>>, <<"04", 4>>, <<"5", 5>>, <<"05", 5>>,
       <<"6", 6>>, <<"06", 6>>, <<"7", 7>>, <<"07", 7>>, <<"8", 8>>, <<"08", 8>>,
       <<"9", 9>>, <<"09", 9>>, <<"10", 10>>, <<"11", 11>>, <<"12", 12>>,
       <<"13", 13>>, <<"14", 14>>, <<"15", 15>>, <<"16", 16>>, <<"17", 17>>,
       <<"18", 18>>, <<"19", 19>>, <<"20", 20>>, <<"21", 21>>, <<"22", 22>>,
       <<"23", 23>>, <<"24", 24>>, <<"25", 25>>, <<"26", 26>>, <<"27", 27>>,
       <<"28", 28>>, <<"29", 29>>, <<"30", 30>>, <<"31", 31>>, <<"40", 40>>,
       <<"2024", 2024>>, <<"2025", 2025>>, <<"2026", 2026>> >>

IsNumeral(a) == \E i \in 1..Len(NumeralTable) : NumeralTable[i][1] = a

NumeralValue(a) ==
    LET i == CHOOSE j \in 1..Len(NumeralTable) : NumeralTable[j][1] = a
    IN  NumeralTable[i][2]

\* int(text): the text, blanks stripped, is an optional sign and one numeral
IntParses(s) ==
    LET t == Strip(s)
    IN  \/ Len(t) = 1 /\ IsNumeral(t[1])
        \/ Len(t) = 2 /\ t[1] \in {"-", "+"} /\ IsNumeral(t[2])

IntValue(s) ==
    LET t == Strip(s)
    IN  IF Len(t) = 1 THEN NumeralValue(t[1])
        ELSE IF t[1] = "-" THEN 0 - NumeralValue(t[2]) ELSE NumeralValue(t[2])

-----------------------------------------------------------------------------
(* Calendar dates: datetime.strptime(text, "%Y-%m-%d") and date.isoformat() *)

\* "%02d" of 1..31
Pad2 ==
    << "01", "02", "03", "04", "05", "06", "07", "08", "09", "10", "11", "12",
       "13", "14", "15", "16", "17", "18", "19", "20", "21", "22", "23", "24",
       "25", "26", "27", "28", "29", "30", "31" >>

IsLeap(y) == (y % 4 = 0 /\ y % 100 # 0) \/ y % 400 = 0

DaysIn(y, m) ==
    IF m = 2 THEN (IF IsLeap(y) THEN 29 ELSE 28)
    ELSE IF m \in {4, 6, 9, 11} THEN 30 ELSE 31

\* "%Y" takes exactly four digits
IsYear(a) == IsNumeral(a) /\ NumeralValue(a) >= 1000

\* a parser with a seeded fault: a day up to 31 passes in every month
StrptimeAnyMonth31(t) ==
    /\ Len(t) = 5
    /\ t[2] = "-" /\ t[4] = "-"
    /\ IsYear(t[1]) /\ IsNumeral(t[3]) /\ IsNumeral(t[5])
    /\ NumeralValue(t[3]) \in 1..12
    /\ NumeralValue(t[5]) \in 1..31

\* strptime(text, "%Y-%m-%d") does not raise ValueError
StrptimeOk(t) ==
    /\ Len(t) = 5
    /\ t[2] = "-" /\ t[4] = "-"
    /\ IsYear(t[1]) /\ IsNumeral(t[3]) /\ IsNumeral(t[5])
    /\ NumeralValue(t[3]) \in 1..12
    /\ NumeralValue(t[5]) \in 1..DaysIn(NumeralValue(t[1]), NumeralValue(t[3]))

\* date.isoformat()
IsoFormat(y, m, d) == <<CHOOSE a \in {"2024", "2025", "2026"} : NumeralValue(a) = y,
                        "-", Pad2[m], "-", Pad2[d]>>

\* date + timedelta(days = n), one day at a time
RECURSIVE PlusDays(_, _)
PlusDays(ymd, n) ==
    IF n = 0 THEN ymd
    ELSE LET y == ymd[1]
             m == ymd[2]
             d == ymd[3]
             next == IF d < DaysIn(y, m) THEN <<y, m, d + 1>>
                     ELSE IF m < 12 THEN <<y, m + 1, 1>>
                     ELSE <<y + 1, 1, 1>>
         IN  PlusDays(next, n - 1)

\* datetime.now().date(): the day the model runs on
Today == <<2025, 12, 18>>

IsoOf(ymd) == IsoFormat(ymd[1], ymd[2], ymd[3])

\* the store's order on ISO dates
DateValue(t) == NumeralValue(t[1]) * 10000 + NumeralValue(t[3]) * 100 + NumeralValue(t[5])

-----------------------------------------------------------------------------
(* The Notion workspace, as notion_service.py uses it *)

Collections == {"assignment", "lab", "project", "course"}
WorkTypes == {"assignment", "lab", "project"}

StatusOptions == {<<"Not started">>, <<"In progress">>, <<"Done">>}

\* an ISO 8601 date, which is what the store takes for a date property
IsIsoDate(t) ==
    /\ StrptimeOk(t)
    /\ \E m \in 1..12 : Pad2[m] = t[3]
    /\ \E d \in 1..31 : Pad2[d] = t[5]

\* page ids: the first two atoms stand for the first 32 characters of the
\* 36-character id, the third atom for the last four
IdLetter(coll) ==
    CASE coll = "assignment" -> "a"
      [] coll = "lab" -> "l"
      [] coll = "project" -> "p"
      [] coll = "course" -> "c"

Str(n) == CHOOSE a \in {"0", "1", "2", "3", "4", "5", "6", "7", "8", "9"} : NumeralValue(a) = n

NewId(d, coll) == <<IdLetter(coll), Str(Len(d[coll]) + 1), "x">>

AllPages(d) == UNION {{d[c][i] : i \in 1..Len(d[c])} : c \in Collections}

\* what the store checks of the properties of a write
PropsAccepted(props) ==
    /\ ("DueDate" \in DOMAIN props => props.DueDate # <<>> /\ IsIsoDate(props.DueDate[1]))
    /\ ("status" \in DOMAIN props => props.status # <<>> /\ props.status[1] \in StatusOptions)

\* the name of the title property a write uses: "Name" or "Title"
TitleOf(props) == IF "Title" \in DOMAIN props THEN "Title" ELSE "Name"

\* the other properties of a database, which every page of it has
OtherProps(coll) ==
    IF coll = "course" THEN {"CourseCode", "Semester", "Professor", "ECTS"}
    ELSE {"CourseCode", "DueDate", "Notes", "status"}
            \cup (IF coll = "lab" THEN {"Description"} ELSE {})

\* notion.pages.create(parent = collection, properties = props): the values
\* are checked, and a property the database does not have is turned down; a
\* database has one title property, the one its pages carry
CreateAccepted(d, coll, props) ==
    /\ PropsAccepted(props)
    /\ DOMAIN props \subseteq {TitleOf(props)} \cup OtherProps(coll)
    /\ \A j \in 1..Len(d[coll]) : TitleOf(props) \in DOMAIN d[coll][j].props

\* the page created has every property of the database, empty where the
\* write gave none
PagesCreate(d, coll, props) ==
    LET all == [k \in DOMAIN props \cup OtherProps(coll) |->
                   IF k \in DOMAIN props THEN props[k] ELSE <<>>]
    IN  [d EXCEPT ![coll] = Append(@, [id |-> NewId(d, coll), archived |-> FALSE, props |-> all])]

PageExists(d, id) == \E p \in AllPages(d) : p.id = id

PageOf(d, id) == CHOOSE p \in AllPages(d) : p.id = id

\* notion.pages.update(page_id, properties = props): named properties replaced
UpdateAccepted(d, id, props) ==
    /\ PageExists(d, id)
    /\ ~PageOf(d, id).archived
    /\ PropsAccepted(props)
    /\ DOMAIN props \subseteq DOMAIN PageOf(d, id).props

PagesUpdate(d, id, props) ==
    [c \in Collections |->
        [i \in 1..Len(d[c]) |->
            IF d[c][i].id = id
            THEN [d[c][i] EXCEPT !.props =
                    [k \in DOMAIN @ |-> IF k \in DOMAIN props THEN props[k] ELSE @[k]]]
            ELSE d[c][i]]]

\* notion.pages.update(page_id, archived = True)
ArchiveAccepted(d, id) == PageExists(d, id) /\ ~PageOf(d, id).archived

\* a delete with a seeded fault: the page is taken out of its database
PagesRemove(d, id) ==
    [c \in Collections |-> SelectSeq(d[c], LAMBDA page : page.id # id)]

PagesArchive(d, id) ==
    [c \in Collections |->
        [i \in 1..Len(d[c]) |->
            IF d[c][i].id = id THEN [d[c][i] EXCEPT !.archived = TRUE] ELSE d[c][i]]]

\* notion.databases.query(sorts = ascending): the pages not archived, by a
\* numeric key, pages without the key last, ties in creation order
HasKey(by, p) == IF by = "Due Date" THEN p.props.DueDate # <<>> ELSE TRUE

SortKey(by, p) == IF by = "Due Date" THEN DateValue(p.props.DueDate[1]) ELSE p.props.Semester

RECURSIVE InsertSorted(_, _, _)
InsertSorted(p, sorted, by) ==
    IF sorted = <<>> THEN <<p>>
    ELSE LET h == Head(sorted)
             before == HasKey(by, p) /\ (~HasKey(by, h) \/ SortKey(by, p) < SortKey(by, h))
         IN  IF before THEN <<p>> \o sorted
             ELSE <<h>> \o InsertSorted(p, Tail(sorted), by)

RECURSIVE SortPages(_, _)
SortPages(pages, by) ==
    IF pages = <<>> THEN <<>>
    ELSE InsertSorted(pages[Len(pages)], SortPages(SubSeq(pages, 1, Len(pages) - 1), by), by)

RECURSIVE Live(_)
Live(pages) ==
    IF pages = <<>> THEN <<>>
    ELSE IF Head(pages).archived THEN Live(Tail(pages))
         ELSE <<Head(pages)>> \o Live(Tail(pages))

DatabasesQuery(d, coll, by) == SortPages(Live(d[coll]), by)

-----------------------------------------------------------------------------
(* notion_service.py: field extraction and the list / get operations *)

Untitled == <<"Untitled">>
NoDate == <<"No date">>
NotStarted == <<"Not started">>

\* a property that is missing (KeyError) or empty / null (IndexError, TypeError)
Absent(props, prop_name) == prop_name \notin DOMAIN props \/ props[prop_name] = <<>>

_get_title(props, prop_name) == IF Absent(props, prop_name) THEN Untitled ELSE props[prop_name][1]

_get_text(props, prop_name) == IF Absent(props, prop_name) THEN <<>> ELSE props[prop_name][1]

_get_date(props, prop_name) == IF Absent(props, prop_name) THEN NoDate ELSE props[prop_name][1]

_get_status(props, prop_name) == IF Absent(props, prop_name) THEN NotStarted ELSE props[prop_name][1]

_parse_item(page, item_type) ==
    LET base == [id |-> page.id,
                 name |-> _get_title(page.props, "Name"),
                 course_code |-> _get_text(page.props, "CourseCode"),
                 due_date |-> _get_date(page.props, "DueDate"),
                 notes |-> _get_text(page.props, "Notes"),
                 status |-> _get_status(page.props, "status")]
    IN  IF item_type = "lab"
        THEN [k \in DOMAIN base \cup {"description"} |->
                 IF k = "description" THEN _get_text(page.props, "Description") ELSE base[k]]
        ELSE base

_parse_items(results, item_type) ==
    [i \in 1..Len(results) |-> _parse_item(results[i], item_type)]

\* list_assignments / list_labs / list_projects; up: the remote call succeeds
list_items(d, item_type, up) ==
    IF up THEN _parse_items(DatabasesQuery(d, item_type, "Due Date"), item_type) ELSE <<>>

list_courses(d, up) ==
    IF up
    THEN LET results == DatabasesQuery(d, "course", "Semester")
         IN  [i \in 1..Len(results) |->
                 [id |-> results[i].id,
                  name |-> _get_title(results[i].props, "Name"),
                  course_code |-> _get_text(results[i].props, "CourseCode"),
                  semester |-> results[i].props.Semester,
                  professor |-> _get_text(results[i].props, "Professor"),
                  ects |-> results[i].props.ECTS]]
    ELSE <<>>

\* get_item_by_id: <<item>>, or <<>> for None
get_item_by_id(d, page_id, up) ==
    IF up /\ PageExists(d, page_id)
    THEN <<_parse_item(PageOf(d, page_id), "assignment")>>
    ELSE <<>>

(* notion_service.py: the write operations, as the remote call each one issues *)

add_assignment(name, course_code, due_date, notes, status) ==
    [op |-> "create", coll |-> "assignment", id |-> <<>>,
     props |-> [Name |-> <<name>>, CourseCode |-> <<course_code>>, DueDate |-> <<due_date>>,
                Notes |-> <<notes>>, status |-> <<status>>]]

add_lab(name, course_code, due_date, description, notes, status) ==
    [op |-> "create", coll |-> "lab", id |-> <<>>,
     props |-> [Name |-> <<name>>, CourseCode |-> <<course_code>>, DueDate |-> <<due_date>>,
                Description |-> <<description>>, Notes |-> <<notes>>, status |-> <<status>>]]

\* a create with a seeded fault: the project goes to the assignments database
add_projectMisfiled(name, course_code, due_date, notes, status) ==
    [op |-> "create", coll |-> "assignment", id |-> <<>>,
     props |-> [Name |-> <<name>>, CourseCode |-> <<course_code>>, DueDate |-> <<due_date>>,
                Notes |-> <<notes>>, status |-> <<status>>]]

add_project(name, course_code, due_date, notes, status) ==
    [op |-> "create", coll |-> "project", id |-> <<>>,
     props |-> [Name |-> <<name>>, CourseCode |-> <<course_code>>, DueDate |-> <<due_date>>,
                Notes |-> <<notes>>, status |-> <<status>>]]

add_course(name, course_code, semester, professor, ects) ==
    [op |-> "create", coll |-> "course", id |-> <<>>,
     props |-> [Name |-> <<name>>, CourseCode |-> <<course_code>>, Semester |-> semester,
                Professor |-> <<professor>>, ECTS |-> ects]]

update_status(page_id, new_status) ==
    [op |-> "update", coll |-> "", id |-> page_id, props |-> [status |-> <<new_status>>]]

update_due_date(page_id, new_date) ==
    [op |-> "update", coll |-> "", id |-> page_id, props |-> [DueDate |-> <<new_date>>]]

update_course(page_id, new_course) ==
    [op |-> "update", coll |-> "", id |-> page_id, props |-> [CourseCode |-> <<new_course>>]]

update_notes(page_id, new_notes) ==
    [op |-> "update", coll |-> "", id |-> page_id, props |-> [Notes |-> <<new_notes>>]]

delete_item(page_id) ==
    [op |-> "archive", coll |-> "", id |-> page_id, props |-> <<>>]

\* result["success"]: the remote call went through and the store took it
Success(d, call, up) ==
    /\ up
    /\ CASE call.op = "create" -> CreateAccepted(d, call.coll, call.props)
         [] call.op = "update" -> UpdateAccepted(d, call.id, call.props)
         [] call.op = "archive" -> ArchiveAccepted(d, call.id)

\* the store after the call
After(d, call, up) ==
    IF ~Success(d, call, up) THEN d
    ELSE CASE call.op = "create" -> PagesCreate(d, call.coll, call.props)
           [] call.op = "update" -> PagesUpdate(d, call.id, call.props)
           [] call.op = "archive" -> PagesArchive(d, call.id)

-----------------------------------------------------------------------------
(* bot.py: callback payloads and keyboard builders (a keyboard is the set *)
(* of the callback_data of its buttons)                                    *)

menu_add == <<"menu", "_", "add">>
menu_list == <<"menu", "_", "list">>
menu_upcoming == <<"menu", "_", "upcoming">>
back_main == <<"back", "_", "main">>
back_add == <<"back", "_", "add">>
back_list == <<"back", "_", "list">>
back_action == <<"back", "_", "action">>
skip == <<"skip">>
date_custom == <<"date", "_", "custom">>

main_menu_keyboard == {menu_add, menu_list, menu_upcoming}

add_menu_keyboard ==
    {<<"add", "_", "assignment">>, <<"add", "_", "lab">>, <<"add", "_", "project">>,
     <<"add", "_", "course">>, back_main}

list_menu_keyboard ==
    {<<"list", "_", "assignments">>, <<"list", "_", "labs">>, <<"list", "_", "projects">>,
     <<"list", "_", "courses">>, back_main}

\* item['id'][:32]
Truncate32(id) == SubSeq(id, 1, IF Len(id) < 2 THEN Len(id) ELSE 2)

Shown(item) == item.name # <<>> /\ item.name # Untitled

items_list_keyboard(items, item_type) ==
    {<<item_type, "_">> \o Truncate32(items[i].id) : i \in {j \in 1..Len(items) : Shown(items[j])}}
        \cup {back_list}

item_action_keyboard(item_id, item_type) ==
    {<<"status", "_">> \o item_type \o <<"_">> \o item_id \o <<"_", "Not started">>,
     <<"status", "_">> \o item_type \o <<"_">> \o item_id \o <<"_", "In progress">>,
     <<"status", "_">> \o item_type \o <<"_">> \o item_id \o <<"_", "Done">>,
     <<"edit", "date", "_">> \o item_type \o <<"_">> \o item_id,
     <<"edit", "course", "_">> \o item_type \o <<"_">> \o item_id,
     <<"edit", "notes", "_">> \o item_type \o <<"_">> \o item_id,
     <<"delete", "_">> \o item_type \o <<"_">> \o item_id,
     <<"back", "_">> \o item_type \o <<"s">>}

confirm_delete_keyboard(item_id, item_type) ==
    {<<"confirm", "delete", "_">> \o item_type \o <<"_">> \o item_id,
     <<"cancel", "delete", "_">> \o item_type \o <<"_">> \o item_id}

upcoming_menu_keyboard ==
    {<<"upcoming", "_", "7">>, <<"upcoming", "_", "14">>, <<"upcoming", "_", "30">>, back_main}

\* courses: what list_courses() returned when the keyboard was built
courses_keyboard(courses) ==
    {<<"course", "_">> \o courses[i].course_code :
        i \in {j \in 1..Len(courses) :
                 /\ courses[j].name # <<>>
                 /\ courses[j].name # Untitled
                 /\ courses[j].course_code # <<>>}}
        \cup {back_add}

date_keyboard ==
    {<<"date", "_">> \o IsoOf(Today),
     <<"date", "_">> \o IsoOf(PlusDays(Today, 1)),
     <<"date", "_">> \o IsoOf(PlusDays(Today, 7)),
     date_custom, back_add}

skip_keyboard == {skip, back_add}

done_keyboard == {menu_add, menu_list, back_main}

back_keyboard(callback_data) == {callback_data}

-----------------------------------------------------------------------------
(* Sessions: the ConversationHandler keeps one state per (chat, user), the *)
(* application one user_data dict per user, the chat its messages          *)

chat_id(k) == k[1]
user_id(k) == k[2]

Keys == DOMAIN state

EmptyDict == <<>>

\* dict[key] = value
Put(dict, key, value) ==
    [x \in DOMAIN dict \cup {key} |-> IF x = key THEN value ELSE dict[x]]

\* dict.get(key, "")
Get(dict, key) == IF key \in DOMAIN dict THEN dict[key] ELSE <<>>

Has(dict, keys) == keys \subseteq DOMAIN dict

Callback(data) == [kind |-> "callback", data |-> data]
Text(text) == [kind |-> "text", data |-> text]
Command(name) == [kind |-> "command", data |-> <<name>>]

\* how: "edit" (query.edit_message_text), "send" (message.reply_text), "none"
\* args: the values the text is formatted with, by name
Reply(how, text, args, kb) == [how |-> how, text |-> text, args |-> args, kb |-> kb]
NoReply == Reply("none", "", <<>>, {})

Remove(seq, i) == SubSeq(seq, 1, i - 1) \o SubSeq(seq, i + 1, Len(seq))

LastN(seq, n) == IF Len(seq) <= n THEN seq ELSE SubSeq(seq, Len(seq) - n + 1, Len(seq))

\* the chat's messages after the reply: an edited message takes the new
\* keyboard, a sent one is added; the message displayed last comes last
Display(ms, i, reply) ==
    CASE reply.how = "edit" -> Append(Remove(ms, i), reply.kb)
      [] reply.how = "send" -> LastN(Append(ms, reply.kb), kept)
      [] OTHER -> ms

\* a button with this callback_data is on message i of the chat
Pressable(k, i, data) == i \in 1..Len(msgs[chat_id(k)]) /\ data \in msgs[chat_id(k)][i]

\* no operation yet, no message being dispatched
NoOp ==
    [name |-> "", args |-> <<>>, up |-> FALSE, raised |-> FALSE, result |-> <<>>, cause |-> ""]
NoResponse == [stop_reason |-> "", content |-> <<>>]
Idle ==
    [pc |-> "idle", messages |-> <<>>, response |-> NoResponse, i |-> 0,
     tool_results |-> <<>>, rounds |-> 0, requests |-> 0, thrown |-> <<>>,
     failed |-> FALSE, reply |-> <<>>, tools |-> {}]

NoEvent ==
    [key |-> <<"", "">>, handler |-> "", input |-> Command(""), calls |-> <<>>,
     success |-> FALSE, reply |-> NoReply, error |-> FALSE]

\* what a handler did: the state it returned, the scratch it left, the remote
\* write it issued (at most one; up: the remote call goes through), its reply
Out(next, data, calls, up, reply) ==
    [next |-> next, data |-> data, calls |-> calls, up |-> up, reply |-> reply]

Stay(k, next, reply) == Out(next, user_data[user_id(k)], <<>>, FALSE, reply)

Handled(k, handler, input, i, out) ==
    /\ state' = [state EXCEPT ![k] = out.next]
    /\ user_data' = [user_data EXCEPT ![user_id(k)] = out.data]
    /\ msgs' = [msgs EXCEPT ![chat_id(k)] = Display(@, i, out.reply)]
    /\ LET success == out.calls # <<>> /\ Success(db, out.calls[1], out.up)
       IN  /\ success => writes < MaxWrites
           /\ db' = IF success THEN After(db, out.calls[1], out.up) ELSE db
           /\ writes' = IF success THEN writes + 1 ELSE writes
           /\ ev' = [key |-> k, handler |-> handler, input |-> input,
                     calls |-> out.calls, success |-> success,
                     reply |-> out.reply, error |-> FALSE]
    /\ UNCHANGED <<kept, op, dispatch>>

\* the handler raised: the ConversationHandler keeps the state, nothing is
\* replied, the scratch is as the handler left it
Raised(k, handler, input, data) ==
    /\ state' = state
    /\ user_data' = [user_data EXCEPT ![user_id(k)] = data]
    /\ msgs' = msgs
    /\ db' = db
    /\ writes' = writes
    /\ ev' = [key |-> k, handler |-> handler, input |-> input, calls |-> <<>>,
              success |-> FALSE, reply |-> NoReply, error |-> TRUE]
    /\ UNCHANGED <<kept, op, dispatch>>

-----------------------------------------------------------------------------
(* bot.py: main menu handlers *)

\* start(): also the tail of the handlers that return start(update, context)
Started(k, handler, input, i) ==
    Handled(k, handler, input, i,
            Out("MAIN_MENU", EmptyDict, <<>>, FALSE,
                Reply(IF input.kind = "callback" THEN "edit" ELSE "send",
                      "Welcome", <<>>, main_menu_keyboard)))

\* entry points /start and /menu, fallback /start
start(k, name) ==
    /\ \/ state[k] = "NONE" /\ name \in {"/start", "/menu"}
       \/ state[k] # "NONE" /\ name = "/start"
    /\ Started(k, "start", Command(name), 0)

\* seeded fault: /cancel returns to the main menu with the scratch kept
cancelKeeping(k) ==
    /\ state[k] # "NONE"
    /\ Handled(k, "cancel", Command("/cancel"), 0,
               Stay(k, "MAIN_MENU", Reply("send", "Cancelled", <<>>, main_menu_keyboard)))

\* fallback /cancel
cancel(k) ==
    /\ state[k] # "NONE"
    /\ Handled(k, "cancel", Command("/cancel"), 0,
               Out("MAIN_MENU", EmptyDict, <<>>, FALSE,
                   Reply("send", "Cancelled", <<>>, main_menu_keyboard)))

main_menu_handler(k, i, data) ==
    /\ state[k] = "MAIN_MENU"
    /\ Pressable(k, i, data)
    /\ Handled(k, "main_menu_handler", Callback(data), i,
          CASE data = menu_add ->
                 Stay(k, "ADD_MENU", Reply("edit", "What would you like to add?", <<>>, add_menu_keyboard))
            [] data = menu_list ->
                 Stay(k, "LIST_MENU", Reply("edit", "What would you like to see?", <<>>, list_menu_keyboard))
            [] data = menu_upcoming ->
                 Stay(k, "UPCOMING_MENU", Reply("edit", "Show upcoming work for:", <<>>, upcoming_menu_keyboard))
            [] OTHER -> Stay(k, "MAIN_MENU", NoReply))

-----------------------------------------------------------------------------
(* bot.py: add menu handlers *)

NameState(t) ==
    CASE t = "assignment" -> "ADD_ASSIGNMENT_NAME"
      [] t = "lab" -> "ADD_LAB_NAME"
      [] t = "project" -> "ADD_PROJECT_NAME"
      [] t = "course" -> "ADD_COURSE_NAME"

CourseState(t) ==
    CASE t = "assignment" -> "ADD_ASSIGNMENT_COURSE"
      [] t = "lab" -> "ADD_LAB_COURSE"
      [] t = "project" -> "ADD_PROJECT_COURSE"

DateState(t) ==
    CASE t = "assignment" -> "ADD_ASSIGNMENT_DATE"
      [] t = "lab" -> "ADD_LAB_DATE"
      [] t = "project" -> "ADD_PROJECT_DATE"

\* seeded fault: the lab flow goes from the date straight to the notes
AfterDateStateSkipping(t) ==
    CASE t = "assignment" -> "ADD_ASSIGNMENT_NOTES"
      [] t = "lab" -> "ADD_LAB_NOTES"
      [] t = "project" -> "ADD_PROJECT_NOTES"

\* the state a date handler returns once the date is stored
AfterDateState(t) ==
    CASE t = "assignment" -> "ADD_ASSIGNMENT_NOTES"
      [] t = "lab" -> "ADD_LAB_DESCRIPTION"
      [] t = "project" -> "ADD_PROJECT_NOTES"

NotesState(t) ==
    CASE t = "assignment" -> "ADD_ASSIGNMENT_NOTES"
      [] t = "lab" -> "ADD_LAB_NOTES"
      [] t = "project" -> "ADD_PROJECT_NOTES"

add_menu_handler(k, i, data) ==
    /\ state[k] = "ADD_MENU"
    /\ Pressable(k, i, data)
    /\ IF data = back_main THEN Started(k, "add_menu_handler", Callback(data), i)
       ELSE Handled(k, "add_menu_handler", Callback(data), i,
               IF \E t \in Collections : data = <<"add", "_", t>>
               THEN LET t == CHOOSE t \in Collections : data = <<"add", "_", t>>
                    IN  Stay(k, NameState(t),
                             Reply("edit", "What's the " \o t \o " name?", <<>>,
                                   back_keyboard(back_add)))
               ELSE Stay(k, "ADD_MENU", NoReply))

\* seeded fault: Back returns to the Add menu with the draft kept
BackToAddMenuKeeping(k, handler, i) ==
    Handled(k, handler, Callback(back_add), i,
            Stay(k, "ADD_MENU",
                 Reply("edit", "What would you like to add?", <<>>, add_menu_keyboard)))

\* back_to_add_menu(): also the tail of the handlers that return it
BackToAddMenu(k, handler, i) ==
    Handled(k, handler, Callback(back_add), i,
            Out("ADD_MENU", EmptyDict, <<>>, FALSE,
                Reply("edit", "What would you like to add?", <<>>, add_menu_keyboard)))

\* the states whose only callback handler is back_to_add_menu, pattern ^back_add$
BackOnlyStates ==
    {"ADD_ASSIGNMENT_NAME", "ADD_LAB_NAME", "ADD_PROJECT_NAME",
     "ADD_COURSE_NAME", "ADD_COURSE_CODE", "ADD_COURSE_SEMESTER"}

back_to_add_menu(k, i) ==
    /\ state[k] \in BackOnlyStates
    /\ Pressable(k, i, back_add)
    /\ BackToAddMenu(k, "back_to_add_menu", i)

-----------------------------------------------------------------------------
(* bot.py: add assignment / lab / project flows.  The three flows share    *)
(* their shape; t is the item type, and the draft keys are t_name, ...     *)

\* add_assignment_name, add_lab_name, add_project_name (text input)
AddName(k, t, handler, text, up1, up2) ==
    /\ state[k] = NameState(t)
    /\ LET data == Put(user_data[user_id(k)], t \o "_name", text)
           courses == list_courses(db, up1)
       IN  Handled(k, handler, Text(text), 0,
              IF courses = <<>>
              THEN Out("ADD_MENU", data, <<>>, FALSE,
                       Reply("send", "No courses found", <<>>, add_menu_keyboard))
              ELSE Out(CourseState(t), data, <<>>, FALSE,
                       Reply("send", "Select the course:", <<>>,
                             courses_keyboard(list_courses(db, up2)))))

add_assignment_name(k, text, up1, up2) ==
    AddName(k, "assignment", "add_assignment_name", text, up1, up2)

add_lab_name(k, text, up1, up2) == AddName(k, "lab", "add_lab_name", text, up1, up2)

add_project_name(k, text, up1, up2) ==
    AddName(k, "project", "add_project_name", text, up1, up2)

\* add_assignment_course, add_lab_course, add_project_course (any callback)
AddCourse(k, t, handler, i, data) ==
    /\ state[k] = CourseState(t)
    /\ Pressable(k, i, data)
    /\ IF data = back_add THEN BackToAddMenu(k, handler, i)
       ELSE LET course_code == Replace(data, <<"course", "_">>, <<>>)
            IN  Handled(k, handler, Callback(data), i,
                   Out(DateState(t), Put(user_data[user_id(k)], t \o "_course", course_code),
                       <<>>, FALSE,
                       Reply("edit", "When is it due?",
                             IF t = "assignment" THEN [course |-> course_code] ELSE <<>>,
                             date_keyboard)))

add_assignment_course(k, i, data) ==
    AddCourse(k, "assignment", "add_assignment_course", i, data)

add_lab_course(k, i, data) == AddCourse(k, "lab", "add_lab_course", i, data)

add_project_course(k, i, data) == AddCourse(k, "project", "add_project_course", i, data)

\* the prompt that follows the date; the assignment flow echoes the draft
AfterDatePrompt(t, data, due_date) ==
    CASE t = "assignment" ->
           Reply("edit", "Any notes for this assignment?",
                 [name |-> data["assignment_name"], course |-> data["assignment_course"],
                  due |-> due_date],
                 skip_keyboard)
      [] t = "lab" -> Reply("edit", "Lab description? (or skip)", <<>>, skip_keyboard)
      [] t = "project" -> Reply("edit", "Any notes?", <<>>, skip_keyboard)

\* the echo reads draft keys that may be gone: KeyError
EchoRaises(t, data) ==
    t = "assignment" /\ ~Has(data, {"assignment_name", "assignment_course"})

\* add_assignment_date, add_lab_date, add_project_date (any callback)
AddDate(k, t, handler, i, data) ==
    /\ state[k] = DateState(t)
    /\ Pressable(k, i, data)
    /\ IF data = back_add THEN BackToAddMenu(k, handler, i)
       ELSE IF data = date_custom
       THEN Handled(k, handler, Callback(data), i,
               Stay(k, DateState(t),
                    Reply("edit", "Enter the due date (YYYY-MM-DD)", <<>>, back_keyboard(back_add))))
       ELSE LET due_date == Replace(data, <<"date", "_">>, <<>>)
                draft == Put(user_data[user_id(k)], t \o "_date", due_date)
            IN  IF EchoRaises(t, draft) THEN Raised(k, handler, Callback(data), draft)
                ELSE Handled(k, handler, Callback(data), i,
                        Out(AfterDateState(t), draft, <<>>, FALSE,
                            AfterDatePrompt(t, draft, due_date)))

add_assignment_date(k, i, data) == AddDate(k, "assignment", "add_assignment_date", i, data)

add_lab_date(k, i, data) == AddDate(k, "lab", "add_lab_date", i, data)

add_project_date(k, i, data) == AddDate(k, "project", "add_project_date", i, data)

\* add_assignment_date_text, add_lab_date_text, add_project_date_text
AddDateText(k, t, handler, text) ==
    /\ state[k] = DateState(t)
    /\ LET date_text == Strip(text)
           draft == Put(user_data[user_id(k)], t \o "_date", date_text)
       IN  IF ~StrptimeOk(date_text)
           THEN Handled(k, handler, Text(text), 0,
                   Stay(k, DateState(t),
                        Reply("send", "Invalid date format", <<>>, back_keyboard(back_add))))
           ELSE IF EchoRaises(t, draft) THEN Raised(k, handler, Text(text), draft)
           ELSE Handled(k, handler, Text(text), 0,
                   Out(AfterDateState(t), draft, <<>>, FALSE,
                       [AfterDatePrompt(t, draft, date_text) EXCEPT !.how = "send"]))

add_assignment_date_text(k, text) ==
    AddDateText(k, "assignment", "add_assignment_date_text", text)

add_lab_date_text(k, text) == AddDateText(k, "lab", "add_lab_date_text", text)

add_project_date_text(k, text) == AddDateText(k, "project", "add_project_date_text", text)

\* the input of a handler registered for callbacks and for text
Arrived(k, i, input) ==
    \/ input.kind = "callback" /\ Pressable(k, i, input.data)
    \/ input.kind = "text" /\ i = 0

HowFor(input) == IF input.kind = "callback" THEN "edit" ELSE "send"

\* an assembly with a seeded fault: name and course change places
DraftCallSwapped(t, data, notes) ==
    CASE t = "assignment" ->
           add_assignment(data["assignment_course"], data["assignment_name"],
                          data["assignment_date"], notes, NotStarted)
      [] t = "lab" ->
           add_lab(data["lab_course"], data["lab_name"], data["lab_date"],
                   Get(data, "lab_description"), notes, NotStarted)
      [] t = "project" ->
           add_project(data["project_course"], data["project_name"],
                       data["project_date"], notes, NotStarted)

\* the create call the terminal state assembles from the draft
DraftCall(t, data, notes) ==
    CASE t = "assignment" ->
           add_assignment(data["assignment_name"], data["assignment_course"],
                          data["assignment_date"], notes, NotStarted)
      [] t = "lab" ->
           add_lab(data["lab_name"], data["lab_course"], data["lab_date"],
                   Get(data, "lab_description"), notes, NotStarted)
      [] t = "project" ->
           add_project(data["project_name"], data["project_course"],
                       data["project_date"], notes, NotStarted)

\* the message after the save
SavedReply(t, data, notes, success, how) ==
    IF ~success THEN Reply(how, "Error", <<>>, done_keyboard)
    ELSE IF t = "assignment"
    THEN Reply(how, "Assignment added!",
               [name |-> data["assignment_name"], course |-> data["assignment_course"],
                due |-> data["assignment_date"],
                notes |-> IF notes # <<>> THEN notes ELSE <<"No notes">>],
               done_keyboard)
    ELSE Reply(how, IF t = "lab" THEN "Lab added!" ELSE "Project added!",
               [name |-> data[t \o "_name"], course |-> data[t \o "_course"],
                due |-> data[t \o "_date"]],
               done_keyboard)

\* a terminal state with a seeded fault: a failed create keeps the draft and
\* asks for the notes again
AddNotesRetry(k, t, handler, i, input, up) ==
    /\ state[k] = NotesState(t)
    /\ Arrived(k, i, input)
    /\ LET data == user_data[user_id(k)]
           notes == IF input.kind = "callback" THEN <<>> ELSE input.data
       IN  IF input.kind = "callback" /\ input.data = back_add
           THEN BackToAddMenu(k, handler, i)
           ELSE IF input.kind = "callback" /\ input.data # skip
           THEN Handled(k, handler, input, i, Stay(k, NotesState(t), NoReply))
           ELSE IF ~Has(data, {t \o "_name", t \o "_course", t \o "_date"})
           THEN Raised(k, handler, input, data)
           ELSE LET call == DraftCall(t, data, notes)
                IN  Handled(k, handler, input, i,
                       IF Success(db, call, up)
                       THEN Out("MAIN_MENU", EmptyDict, <<call>>, up,
                                SavedReply(t, data, notes, TRUE, HowFor(input)))
                       ELSE Out(NotesState(t), data, <<call>>, up,
                                Reply(HowFor(input), "Error", <<>>, skip_keyboard)))

\* add_assignment_notes, add_lab_notes, add_project_notes (callback or text)
AddNotes(k, t, handler, i, input, up) ==
    /\ state[k] = NotesState(t)
    /\ Arrived(k, i, input)
    /\ LET data == user_data[user_id(k)]
           notes == IF input.kind = "callback" THEN <<>> ELSE input.data
       IN  IF input.kind = "callback" /\ input.data = back_add
           THEN BackToAddMenu(k, handler, i)
           ELSE IF input.kind = "callback" /\ input.data # skip
           THEN Handled(k, handler, input, i, Stay(k, NotesState(t), NoReply))
           ELSE IF ~Has(data, {t \o "_name", t \o "_course", t \o "_date"})
           THEN Raised(k, handler, input, data)
           ELSE LET call == DraftCall(t, data, notes)
                IN  Handled(k, handler, input, i,
                       Out("MAIN_MENU", EmptyDict, <<call>>, up,
                           SavedReply(t, data, notes, Success(db, call, up), HowFor(input))))

add_assignment_notes(k, i, input, up) ==
    AddNotes(k, "assignment", "add_assignment_notes", i, input, up)

add_lab_notes(k, i, input, up) == AddNotes(k, "lab", "add_lab_notes", i, input, up)

add_project_notes(k, i, input, up) ==
    AddNotes(k, "project", "add_project_notes", i, input, up)

add_lab_description(k, i, input) ==
    /\ state[k] = "ADD_LAB_DESCRIPTION"
    /\ Arrived(k, i, input)
    /\ IF input.kind = "callback" /\ input.data = back_add
       THEN BackToAddMenu(k, "add_lab_description", i)
       ELSE Handled(k, "add_lab_description", input, i,
               IF input.kind = "callback" /\ input.data # skip
               THEN Stay(k, "ADD_LAB_DESCRIPTION", NoReply)
               ELSE Out("ADD_LAB_NOTES",
                        Put(user_data[user_id(k)], "lab_description",
                            IF input.kind = "callback" THEN <<>> ELSE input.data),
                        <<>>, FALSE,
                        Reply(HowFor(input), "Any notes?", <<>>, skip_keyboard)))

-----------------------------------------------------------------------------
(* bot.py: add course flow *)

\* seeded fault: the course name is asked for and not kept
add_course_nameUnfiled(k, text) ==
    /\ state[k] = "ADD_COURSE_NAME"
    /\ Handled(k, "add_course_name", Text(text), 0,
          Stay(k, "ADD_COURSE_CODE",
               Reply("send", "What's the course code?", <<>>, back_keyboard(back_add))))

add_course_name(k, text) ==
    /\ state[k] = "ADD_COURSE_NAME"
    /\ Handled(k, "add_course_name", Text(text), 0,
          Out("ADD_COURSE_CODE", Put(user_data[user_id(k)], "course_name", text), <<>>, FALSE,
              Reply("send", "What's the course code?", <<>>, back_keyboard(back_add))))

\* seeded fault: a course code that is not in upper case is asked again
add_course_codeChecked(k, text) ==
    /\ state[k] = "ADD_COURSE_CODE"
    /\ Handled(k, "add_course_code", Text(text), 0,
          IF Upper(text) = text
          THEN Out("ADD_COURSE_SEMESTER", Put(user_data[user_id(k)], "course_code", text),
                   <<>>, FALSE,
                   Reply("send", "Which semester? (number)", <<>>, back_keyboard(back_add)))
          ELSE Stay(k, "ADD_COURSE_CODE",
                    Reply("send", "Invalid course code", <<>>, back_keyboard(back_add))))

\* seeded fault: the course code is written over the course name
add_course_codeMisfiled(k, text) ==
    /\ state[k] = "ADD_COURSE_CODE"
    /\ Handled(k, "add_course_code", Text(text), 0,
          Out("ADD_COURSE_SEMESTER", Put(user_data[user_id(k)], "course_name", Upper(text)),
              <<>>, FALSE,
              Reply("send", "Which semester? (number)", <<>>, back_keyboard(back_add))))

add_course_code(k, text) ==
    /\ state[k] = "ADD_COURSE_CODE"
    /\ Handled(k, "add_course_code", Text(text), 0,
          Out("ADD_COURSE_SEMESTER", Put(user_data[user_id(k)], "course_code", Upper(text)),
              <<>>, FALSE,
              Reply("send", "Which semester? (number)", <<>>, back_keyboard(back_add))))

add_course_semester(k, text) ==
    /\ state[k] = "ADD_COURSE_SEMESTER"
    /\ Handled(k, "add_course_semester", Text(text), 0,
          IF IntParses(text)
          THEN Out("ADD_COURSE_PROFESSOR",
                   Put(user_data[user_id(k)], "course_semester", IntValue(text)), <<>>, FALSE,
                   Reply("send", "Professor name?", <<>>, skip_keyboard))
          ELSE Stay(k, "ADD_COURSE_SEMESTER",
                    Reply("send", "Please enter a number", <<>>, back_keyboard(back_add))))

\* a callback that is neither back nor skip falls off the end: returns None,
\* and the ConversationHandler keeps the state
add_course_professor(k, i, input) ==
    /\ state[k] = "ADD_COURSE_PROFESSOR"
    /\ Arrived(k, i, input)
    /\ IF input.kind = "callback" /\ input.data = back_add
       THEN BackToAddMenu(k, "add_course_professor", i)
       ELSE Handled(k, "add_course_professor", input, i,
               IF input.kind = "callback" /\ input.data # skip
               THEN Stay(k, state[k], NoReply)
               ELSE Out("ADD_COURSE_ECTS",
                        Put(user_data[user_id(k)], "course_professor",
                            IF input.kind = "callback" THEN <<>> ELSE input.data),
                        <<>>, FALSE,
                        Reply(HowFor(input), "How many ECTS credits?", <<>>, skip_keyboard)))

add_course_ects(k, i, input, up) ==
    /\ state[k] = "ADD_COURSE_ECTS"
    /\ Arrived(k, i, input)
    /\ LET data == user_data[user_id(k)]
           ects == IF input.kind = "callback" THEN 0 ELSE IntValue(input.data)
       IN  IF input.kind = "callback" /\ input.data = back_add
           THEN BackToAddMenu(k, "add_course_ects", i)
           ELSE IF input.kind = "callback" /\ input.data # skip
           THEN Handled(k, "add_course_ects", input, i, Stay(k, "ADD_COURSE_ECTS", NoReply))
           ELSE IF input.kind = "text" /\ ~IntParses(input.data)
           THEN Handled(k, "add_course_ects", input, i,
                   Stay(k, "ADD_COURSE_ECTS",
                        Reply("send", "Please enter a number", <<>>, skip_keyboard)))
           ELSE IF ~Has(data, {"course_name", "course_code", "course_semester"})
           THEN Raised(k, "add_course_ects", input, data)
           ELSE LET call == add_course(data["course_name"], data["course_code"],
                                       data["course_semester"],
                                       Get(data, "course_professor"), ects)
                IN  Handled(k, "add_course_ects", input, i,
                       Out("MAIN_MENU", EmptyDict, <<call>>, up,
                           IF Success(db, call, up)
                           THEN Reply(HowFor(input), "Course added!",
                                      [name |-> data["course_name"],
                                       code |-> data["course_code"],
                                       semester |-> data["course_semester"],
                                       professor |-> IF "course_professor" \in DOMAIN data
                                                     THEN data["course_professor"]
                                                     ELSE <<"N/A">>,
                                       ects |-> ects],
                                      done_keyboard)
                           ELSE Reply(HowFor(input), "Error", <<>>, done_keyboard)))

-----------------------------------------------------------------------------
(* bot.py: list handlers *)

SelectState(t) ==
    CASE t = "assignment" -> "LIST_ASSIGNMENTS_SELECT"
      [] t = "lab" -> "LIST_LABS_SELECT"
      [] t = "project" -> "LIST_PROJECTS_SELECT"

\* [i for i in items if i.get('name') and i['name'] != "Untitled"]
RECURSIVE Filtered(_)
Filtered(items) ==
    IF items = <<>> THEN <<>>
    ELSE IF Shown(Head(items)) THEN <<Head(items)>> \o Filtered(Tail(items))
         ELSE Filtered(Tail(items))

Names(items) == [j \in 1..Len(items) |-> items[j].name]

list_menu_handler(k, i, data, up) ==
    /\ state[k] = "LIST_MENU"
    /\ Pressable(k, i, data)
    /\ IF data = back_main THEN Started(k, "list_menu_handler", Callback(data), i)
       ELSE Handled(k, "list_menu_handler", Callback(data), i,
               IF \E t \in WorkTypes : data = <<"list", "_", t \o "s">>
               THEN LET t == CHOOSE t \in WorkTypes : data = <<"list", "_", t \o "s">>
                        items == Filtered(list_items(db, t, up))
                    IN  IF items = <<>>
                        THEN Stay(k, "LIST_MENU",
                                  Reply("edit", "No " \o t \o "s found.", <<>>, list_menu_keyboard))
                        ELSE Stay(k, SelectState(t),
                                  Reply("edit", "Your " \o t \o "s:", <<>>,
                                        items_list_keyboard(items, t)))
               ELSE IF data = <<"list", "_", "courses">>
               THEN LET items == list_courses(db, up)
                    IN  Stay(k, "LIST_MENU",
                             IF items = <<>>
                             THEN Reply("edit", "No courses found.", <<>>, list_menu_keyboard)
                             ELSE Reply("edit", "Your Courses:",
                                        [shown |-> Names(Filtered(items))], list_menu_keyboard))
               ELSE Stay(k, "LIST_MENU", NoReply))

\* a lookup with a seeded fault: the last item of the list that matches
LastMatch(items, prefix) ==
    LET hits == {j \in 1..Len(items) : StartsWith(items[j].id, prefix)}
    IN  IF hits = {} THEN 0 ELSE CHOOSE j \in hits : \A j2 \in hits : j >= j2

\* the first item of the list whose id starts with the prefix: its index, or 0
FirstMatch(items, prefix) ==
    LET hits == {j \in 1..Len(items) : StartsWith(items[j].id, prefix)}
    IN  IF hits = {} THEN 0 ELSE CHOOSE j \in hits : \A j2 \in hits : j <= j2

\* the item view shown with the action keyboard
ItemView(item, item_id, item_type) ==
    Reply("edit", "What would you like to do?",
          [name |-> item.name, course |-> item.course_code, due |-> item.due_date,
           notes |-> item.notes, status |-> item.status],
          item_action_keyboard(item_id, item_type))

\* list_assignments_select_handler, list_labs_select_handler, list_projects_select_handler
ListSelect(k, t, handler, i, data, up) ==
    /\ state[k] = SelectState(t)
    /\ Pressable(k, i, data)
    /\ Handled(k, handler, Callback(data), i,
          IF data = back_list
          THEN Stay(k, "LIST_MENU",
                    Reply("edit", "What would you like to see?", <<>>, list_menu_keyboard))
          ELSE IF StartsWith(data, <<t, "_">>)
          THEN LET item_id == Replace(data, <<t, "_">>, <<>>)
                   items == list_items(db, t, up)
                   j == FirstMatch(items, item_id)
               IN  IF j # 0
                   THEN Out("ITEM_ACTION",
                            Put(Put(user_data[user_id(k)], "selected_item_id", items[j].id),
                                "selected_item_type", <<t>>),
                            <<>>, FALSE, ItemView(items[j], item_id, <<t>>))
                   ELSE Stay(k, "ITEM_ACTION",
                             Reply("edit", "Item not found", <<>>, list_menu_keyboard))
          ELSE Stay(k, SelectState(t), NoReply))

list_assignments_select_handler(k, i, data, up) ==
    ListSelect(k, "assignment", "list_assignments_select_handler", i, data, up)

list_labs_select_handler(k, i, data, up) ==
    ListSelect(k, "lab", "list_labs_select_handler", i, data, up)

list_projects_select_handler(k, i, data, up) ==
    ListSelect(k, "project", "list_projects_select_handler", i, data, up)

\* an outcome with a seeded fault: after a failed write the session is back
\* in the item view
WriteOutRetry(call, up, how, ok_text, args) ==
    IF Success(db, call, up)
    THEN Out("MAIN_MENU", EmptyDict, <<call>>, up, Reply(how, ok_text, args, done_keyboard))
    ELSE Out("ITEM_ACTION", EmptyDict, <<call>>, up, Reply(how, "Error", <<>>, done_keyboard))

\* the outcome of an update or archive of the selected item: the session is
\* cleared and goes to the main menu whatever the result
WriteOut(call, up, how, ok_text, args) ==
    Out("MAIN_MENU", EmptyDict, <<call>>, up,
        IF Success(db, call, up) THEN Reply(how, ok_text, args, done_keyboard)
        ELSE Reply(how, "Error", <<>>, done_keyboard))

item_action_handler(k, i, data, up) ==
    /\ state[k] = "ITEM_ACTION"
    /\ Pressable(k, i, data)
    /\ LET item_id == Get(user_data[user_id(k)], "selected_item_id")
           item_type == Get(user_data[user_id(k)], "selected_item_type")
           parts == Split(data, 3)
       IN  Handled(k, "item_action_handler", Callback(data), i,
              IF \E t \in WorkTypes : data = <<"back", "_", t, "s">>
              THEN LET t == CHOOSE t \in WorkTypes : data = <<"back", "_", t, "s">>
                   IN  Stay(k, SelectState(t),
                            Reply("edit", "Your " \o t \o "s:", <<>>,
                                  items_list_keyboard(Filtered(list_items(db, t, up)), t)))
              ELSE IF StartsWith(data, <<"status", "_">>) /\ Len(parts) >= 4
              THEN WriteOut(update_status(item_id, parts[4]), up, "edit",
                            "Status updated", [status |-> parts[4]])
              ELSE IF StartsWith(data, <<"edit", "date", "_">>)
              THEN Stay(k, "EDIT_DATE", Reply("edit", "Select new due date:", <<>>, date_keyboard))
              ELSE IF StartsWith(data, <<"edit", "course", "_">>)
              THEN Stay(k, "EDIT_COURSE",
                        Reply("edit", "Select new course:", <<>>,
                              courses_keyboard(list_courses(db, up))))
              ELSE IF StartsWith(data, <<"edit", "notes", "_">>)
              THEN Stay(k, "EDIT_NOTES",
                        Reply("edit", "Type new notes", <<>>, back_keyboard(back_action)))
              ELSE IF StartsWith(data, <<"delete", "_">>)
              THEN Stay(k, "CONFIRM_DELETE",
                        Reply("edit", "Are you sure you want to delete this item?", <<>>,
                              confirm_delete_keyboard(item_id, item_type)))
              ELSE Stay(k, "ITEM_ACTION", NoReply))

\* a way back with a seeded fault: the selection is dropped
BackToItemCleared(k, up) ==
    Out("ITEM_ACTION", EmptyDict, <<>>, FALSE, NoReply)

\* Back / Cancel of an edit or of the delete confirmation: the item is read
\* again and shown if the read gives it; the state is ITEM_ACTION either way
BackToItem(k, up) ==
    LET item_id == Get(user_data[user_id(k)], "selected_item_id")
        item_type == Get(user_data[user_id(k)], "selected_item_type")
        item == get_item_by_id(db, item_id, up)
    IN  Stay(k, "ITEM_ACTION",
             IF item # <<>> THEN ItemView(item[1], Truncate32(item_id), item_type)
             ELSE NoReply)

edit_date_handler(k, i, data, up) ==
    /\ state[k] = "EDIT_DATE"
    /\ Pressable(k, i, data)
    /\ LET item_id == Get(user_data[user_id(k)], "selected_item_id")
           new_date == Replace(data, <<"date", "_">>, <<>>)
       IN  Handled(k, "edit_date_handler", Callback(data), i,
              IF data = back_add THEN BackToItem(k, up)
              ELSE IF data = date_custom
              THEN Stay(k, "EDIT_DATE",
                        Reply("edit", "Enter the new due date (YYYY-MM-DD):", <<>>,
                              back_keyboard(back_add)))
              ELSE IF StartsWith(data, <<"date", "_">>)
              THEN WriteOut(update_due_date(item_id, new_date), up, "edit",
                            "Due date updated", [due |-> new_date])
              ELSE Stay(k, "EDIT_DATE", NoReply))

edit_date_text_handler(k, text, up) ==
    /\ state[k] = "EDIT_DATE"
    /\ LET date_text == Strip(text)
           item_id == Get(user_data[user_id(k)], "selected_item_id")
       IN  Handled(k, "edit_date_text_handler", Text(text), 0,
              IF ~StrptimeOk(date_text)
              THEN Stay(k, "EDIT_DATE",
                        Reply("send", "Invalid format", <<>>, back_keyboard(back_add)))
              ELSE WriteOut(update_due_date(item_id, date_text), up, "send",
                            "Due date updated", [due |-> date_text]))

edit_course_handler(k, i, data, up) ==
    /\ state[k] = "EDIT_COURSE"
    /\ Pressable(k, i, data)
    /\ LET item_id == Get(user_data[user_id(k)], "selected_item_id")
           new_course == Replace(data, <<"course", "_">>, <<>>)
       IN  Handled(k, "edit_course_handler", Callback(data), i,
              IF data = back_add THEN BackToItem(k, up)
              ELSE IF StartsWith(data, <<"course", "_">>)
              THEN WriteOut(update_course(item_id, new_course), up, "edit",
                            "Course updated", [course |-> new_course])
              ELSE Stay(k, "EDIT_COURSE", NoReply))

edit_notes_handler(k, i, input, up) ==
    /\ state[k] = "EDIT_NOTES"
    /\ Arrived(k, i, input)
    /\ LET item_id == Get(user_data[user_id(k)], "selected_item_id")
       IN  Handled(k, "edit_notes_handler", input, i,
              IF input.kind = "callback"
              THEN (IF input.data = back_action THEN BackToItem(k, up)
                    ELSE Stay(k, "EDIT_NOTES", NoReply))
              ELSE WriteOut(update_notes(item_id, Strip(input.data)), up, "send",
                            "Notes updated!", <<>>))

\* seeded fault: every press in the confirmation view archives the item
confirm_delete_handlerAlways(k, i, data, up) ==
    /\ state[k] = "CONFIRM_DELETE"
    /\ Pressable(k, i, data)
    /\ Handled(k, "confirm_delete_handler", Callback(data), i,
               WriteOut(delete_item(Get(user_data[user_id(k)], "selected_item_id")),
                        up, "edit", "Item deleted!", <<>>))

confirm_delete_handler(k, i, data, up) ==
    /\ state[k] = "CONFIRM_DELETE"
    /\ Pressable(k, i, data)
    /\ LET item_id == Get(user_data[user_id(k)], "selected_item_id")
       IN  Handled(k, "confirm_delete_handler", Callback(data), i,
              IF StartsWith(data, <<"confirm", "delete", "_">>)
              THEN WriteOut(delete_item(item_id), up, "edit", "Item deleted!", <<>>)
              ELSE IF StartsWith(data, <<"cancel", "delete", "_">>)
              THEN BackToItem(k, up)
              ELSE Stay(k, "CONFIRM_DELETE", NoReply))

-----------------------------------------------------------------------------
(* bot.py: upcoming handlers, over notion_service.get_upcoming *)

\* the date filter of get_upcoming: on_or_after today, on_or_before today + days
\* a filter with a seeded fault: the last day of the window is left out
RECURSIVE InWindowOpen(_, _, _)
InWindowOpen(pages, lo, hi) ==
    IF pages = <<>> THEN <<>>
    ELSE LET p == Head(pages)
             in == /\ ~Absent(p.props, "DueDate")
                   /\ DateValue(p.props.DueDate[1]) >= DateValue(lo)
                   /\ DateValue(p.props.DueDate[1]) < DateValue(hi)
         IN  IF in THEN <<p>> \o InWindowOpen(Tail(pages), lo, hi)
             ELSE InWindowOpen(Tail(pages), lo, hi)

RECURSIVE InWindow(_, _, _)
InWindow(pages, lo, hi) ==
    IF pages = <<>> THEN <<>>
    ELSE LET p == Head(pages)
             in == /\ ~Absent(p.props, "DueDate")
                   /\ DateValue(p.props.DueDate[1]) >= DateValue(lo)
                   /\ DateValue(p.props.DueDate[1]) <= DateValue(hi)
         IN  IF in THEN <<p>> \o InWindow(Tail(pages), lo, hi) ELSE InWindow(Tail(pages), lo, hi)

\* one query of get_upcoming; a failed query leaves the empty list
upcoming_of(d, item_type, days, up) ==
    IF up
    THEN _parse_items(InWindow(DatabasesQuery(d, item_type, "Due Date"),
                               IsoOf(Today), IsoOf(PlusDays(Today, days))),
                      item_type)
    ELSE <<>>

get_upcoming(d, days, ups) ==
    [assignments |-> upcoming_of(d, "assignment", days, ups[1]),
     labs |-> upcoming_of(d, "lab", days, ups[2]),
     projects |-> upcoming_of(d, "project", days, ups[3])]

upcoming_menu_handler(k, i, data, ups) ==
    /\ state[k] = "UPCOMING_MENU"
    /\ Pressable(k, i, data)
    /\ LET days_text == Replace(data, <<"upcoming", "_">>, <<>>)
       IN  IF data = back_main THEN Started(k, "upcoming_menu_handler", Callback(data), i)
           ELSE IF ~IntParses(days_text)
           THEN Raised(k, "upcoming_menu_handler", Callback(data), user_data[user_id(k)])
           ELSE LET work == get_upcoming(db, IntValue(days_text), ups)
                IN  Handled(k, "upcoming_menu_handler", Callback(data), i,
                       Stay(k, "UPCOMING_MENU",
                            Reply("edit", "Due in the next days",
                                  [days |-> IntValue(days_text),
                                   assignments |-> Names(work.assignments),
                                   labs |-> Names(work.labs),
                                   projects |-> Names(work.projects)],
                                  upcoming_menu_keyboard)))

-----------------------------------------------------------------------------
(* The environment: what users type, and the workspace the bot starts on *)

NameTexts == {<<"Homework 3">>, <<"Quiz 1">>}
NotesTexts == {<<"chapter 2">>}
CodeTexts == {<<"cs101">>}
NumberTexts == {<<"3">>, <<"-", "2">>, <<"abc">>}
DateTexts ==
    {<<"2025", "-", "12", "-", "20">>, <<" ", "2025", "-", "12", "-", "20">>,
     <<"2025", "/", "13", "/", "40">>, <<"2025", "-", "02", "-", "30">>, <<"next friday">>}

WorkProps(name, course_code, due_date) ==
    [Name |-> <<name>>, CourseCode |-> <<course_code>>, DueDate |-> <<due_date>>,
     Notes |-> <<<<>>>>, status |-> <<NotStarted>>]

CourseProps(name, course_code, semester, ects) ==
    [Name |-> <<name>>, CourseCode |-> <<course_code>>, Semester |-> semester,
     Professor |-> <<<<>>>>, ECTS |-> ects]

\* a workspace with two courses and one item of each type
Store1 ==
    [assignment |->
        <<[id |-> <<"a", "1", "x">>, archived |-> FALSE,
           props |-> WorkProps(<<"Essay">>, <<"CS101">>, IsoOf(PlusDays(Today, 2)))]>>,
     lab |->
        <<[id |-> <<"l", "1", "x">>, archived |-> FALSE,
           props |-> [k \in DOMAIN WorkProps(<<>>, <<>>, <<>>) \cup {"Description"} |->
                        IF k = "Description" THEN <<<<>>>>
                        ELSE WorkProps(<<"Lab 5">>, <<"CS101">>, IsoOf(PlusDays(Today, 9)))[k]]]>>,
     project |->
        <<[id |-> <<"p", "1", "x">>, archived |-> FALSE,
           props |-> WorkProps(<<"Final Project">>, <<"CS101">>, IsoOf(PlusDays(Today, 20)))]>>,
     course |->
        <<[id |-> <<"c", "1", "x">>, archived |-> FALSE,
           props |-> CourseProps(<<"Algorithms">>, <<"CS101">>, 3, 6)],
          [id |-> <<"c", "2", "x">>, archived |-> FALSE,
           props |-> CourseProps(<<"Calculus">>, <<"MA201">>, 1, 5)]>>]

\* a new workspace: the four databases exist and are empty
Store0 == [coll \in Collections |-> <<>>]

\* a workspace with records left half-filled in Notion: an assignment and a
\* course without a title, and two assignments whose ids agree on their first
\* 32 characters, the one created first being due last
Store2 ==
    [assignment |->
        <<[id |-> <<"a", "1", "x">>, archived |-> FALSE,
           props |-> WorkProps(<<"Essay">>, <<"CS101">>, IsoOf(PlusDays(Today, 3)))],
          [id |-> <<"a", "1", "y">>, archived |-> FALSE,
           props |-> WorkProps(<<"Report">>, <<"CS101">>, IsoOf(PlusDays(Today, 2)))],
          [id |-> <<"a", "3", "x">>, archived |-> FALSE,
           props |-> [WorkProps(<<>>, <<"CS101">>, IsoOf(PlusDays(Today, 1)))
                        EXCEPT !.Name = <<>>]]>>,
     lab |-> <<>>,
     project |-> <<>>,
     course |->
        <<[id |-> <<"c", "1", "x">>, archived |-> FALSE,
           props |-> [CourseProps(<<>>, <<"MA201">>, 1, 5) EXCEPT !.Name = <<>>]]>>]

TheChat == "chat1"
TheUser == "user1"

Init ==
    /\ state = [k \in {<<TheChat, TheUser>>} |-> "NONE"]
    /\ user_data = [u \in {TheUser} |-> EmptyDict]
    /\ msgs = [c \in {TheChat} |-> <<>>]
    /\ kept = MaxMsgs
    /\ db \in {Store0, Store1, Store2}
    /\ writes = 0
    /\ ev = NoEvent
    /\ op = NoOp
    /\ dispatch = Idle

\* whether a remote call goes through: the workspace is reachable until it
\* has taken MaxWrites writes, then every call fails
Up == IF writes < MaxWrites THEN BOOLEAN ELSE {FALSE}

\* the buttons the user can press in the chat of session k: those of the
\* messages that still carry their keyboard, as <<message, callback_data>>
Presses(k) ==
    UNION {{<<i, data>> : data \in msgs[chat_id(k)][i]} : i \in 1..Len(msgs[chat_id(k)])}

\* one update is handled: ConversationHandler gives it to the first handler of
\* the session's state that matches it (main(), states and fallbacks)
Next ==
    \/ \E k \in Keys : \E name \in {"/start", "/menu"} : start(k, name)
    \/ \E k \in Keys : cancel(k)
    \/ \E k \in Keys : \E p \in Presses(k) : main_menu_handler(k, p[1], p[2])
    \/ \E k \in Keys : \E p \in Presses(k) : add_menu_handler(k, p[1], p[2])
    \/ \E k \in Keys : \E i \in 1..Len(msgs[chat_id(k)]) :
          back_add \in msgs[chat_id(k)][i] /\ back_to_add_menu(k, i)
    \/ \E k \in Keys : \E text \in NameTexts : \E up1, up2 \in Up :
          add_assignment_name(k, text, up1, up2)
    \/ \E k \in Keys : \E p \in Presses(k) : add_assignment_course(k, p[1], p[2])
    \/ \E k \in Keys : \E p \in Presses(k) : add_assignment_date(k, p[1], p[2])
    \/ \E k \in Keys : \E text \in DateTexts : add_assignment_date_text(k, text)
    \/ \E k \in Keys : \E up \in Up :
          \/ \E p \in Presses(k) : add_assignment_notes(k, p[1], Callback(p[2]), up)
          \/ \E text \in NotesTexts : add_assignment_notes(k, 0, Text(text), up)
    \/ \E k \in Keys : \E text \in NameTexts : \E up1, up2 \in Up :
          add_lab_name(k, text, up1, up2)
    \/ \E k \in Keys : \E p \in Presses(k) : add_lab_course(k, p[1], p[2])
    \/ \E k \in Keys : \E p \in Presses(k) : add_lab_date(k, p[1], p[2])
    \/ \E k \in Keys : \E text \in DateTexts : add_lab_date_text(k, text)
    \/ \E k \in Keys :
          \/ \E p \in Presses(k) : add_lab_description(k, p[1], Callback(p[2]))
          \/ \E text \in NotesTexts : add_lab_description(k, 0, Text(text))
    \/ \E k \in Keys : \E up \in Up :
          \/ \E p \in Presses(k) : add_lab_notes(k, p[1], Callback(p[2]), up)
          \/ \E text \in NotesTexts : add_lab_notes(k, 0, Text(text), up)
    \/ \E k \in Keys : \E text \in NameTexts : \E up1, up2 \in Up :
          add_project_name(k, text, up1, up2)
    \/ \E k \in Keys : \E p \in Presses(k) : add_project_course(k, p[1], p[2])
    \/ \E k \in Keys : \E p \in Presses(k) : add_project_date(k, p[1], p[2])
    \/ \E k \in Keys : \E text \in DateTexts : add_project_date_text(k, text)
    \/ \E k \in Keys : \E up \in Up :
          \/ \E p \in Presses(k) : add_project_notes(k, p[1], Callback(p[2]), up)
          \/ \E text \in NotesTexts : add_project_notes(k, 0, Text(text), up)
    \/ \E k \in Keys : \E text \in NameTexts : add_course_name(k, text)
    \/ \E k \in Keys : \E text \in CodeTexts : add_course_code(k, text)
    \/ \E k \in Keys : \E text \in NumberTexts : add_course_semester(k, text)
    \/ \E k \in Keys :
          \/ \E p \in Presses(k) : add_course_professor(k, p[1], Callback(p[2]))
          \/ \E text \in NotesTexts : add_course_professor(k, 0, Text(text))
    \/ \E k \in Keys : \E up \in Up :
          \/ \E p \in Presses(k) : add_course_ects(k, p[1], Callback(p[2]), up)
          \/ \E text \in NumberTexts : add_course_ects(k, 0, Text(text), up)
    \/ \E k \in Keys : \E p \in Presses(k) : \E up \in Up :
          list_menu_handler(k, p[1], p[2], up)
    \/ \E k \in Keys : \E p \in Presses(k) : \E up \in Up :
          list_assignments_select_handler(k, p[1], p[2], up)
    \/ \E k \in Keys : \E p \in Presses(k) : \E up \in Up :
          list_labs_select_handler(k, p[1], p[2], up)
    \/ \E k \in Keys : \E p \in Presses(k) : \E up \in Up :
          list_projects_select_handler(k, p[1], p[2], up)
    \/ \E k \in Keys : \E p \in Presses(k) : \E up \in Up :
          item_action_handler(k, p[1], p[2], up)
    \/ \E k \in Keys : \E p \in Presses(k) : \E up \in Up :
          edit_date_handler(k, p[1], p[2], up)
    \/ \E k \in Keys : \E text \in DateTexts : \E up \in Up :
          edit_date_text_handler(k, text, up)
    \/ \E k \in Keys : \E p \in Presses(k) : \E up \in Up :
          edit_course_handler(k, p[1], p[2], up)
    \/ \E k \in Keys : \E up \in Up :
          \/ \E p \in Presses(k) : edit_notes_handler(k, p[1], Callback(p[2]), up)
          \/ \E text \in NotesTexts : edit_notes_handler(k, 0, Text(text), up)
    \/ \E k \in Keys : \E p \in Presses(k) : \E up \in Up :
          confirm_delete_handler(k, p[1], p[2], up)
    \/ \E k \in Keys : \E p \in Presses(k) : \E ups \in [1..3 -> Up] :
          upcoming_menu_handler(k, p[1], p[2], ups)

Spec == Init /\ [][Next]_vars

\* A chat keeps every message it was sent, so a keyboard displayed before the
\* latest two can still be pressed. The same handlers with a longer window,
\* for a user who adds, lists and edits assignments in a workspace that
\* holds pages already.
MaxOlder == 3

InitOlder ==
    /\ state = [k \in {<<TheChat, TheUser>>} |-> "NONE"]
    /\ user_data = [u \in {TheUser} |-> EmptyDict]
    /\ msgs = [c \in {TheChat} |-> <<>>]
    /\ kept = MaxOlder
    /\ db = Store1
    /\ writes = 0
    /\ ev = NoEvent
    /\ op = NoOp
    /\ dispatch = Idle

NextOlder ==
    \/ \E k \in Keys : start(k, "/start")
    \/ \E k \in Keys : \E p \in Presses(k) : main_menu_handler(k, p[1], p[2])
    \/ \E k \in Keys : \E p \in Presses(k) : add_menu_handler(k, p[1], p[2])
    \/ \E k \in Keys : \E i \in 1..Len(msgs[chat_id(k)]) :
          back_add \in msgs[chat_id(k)][i] /\ back_to_add_menu(k, i)
    \/ \E k \in Keys : \E up1, up2 \in Up :
          add_assignment_name(k, <<"Homework 3">>, up1, up2)
    \/ \E k \in Keys : \E p \in Presses(k) : add_assignment_course(k, p[1], p[2])
    \/ \E k \in Keys : \E p \in Presses(k) : add_assignment_date(k, p[1], p[2])
    \/ \E k \in Keys : \E text \in DateTexts : add_assignment_date_text(k, text)
    \/ \E k \in Keys : \E up \in Up : \E p \in Presses(k) :
          add_assignment_notes(k, p[1], Callback(p[2]), up)
    \/ \E k \in Keys : \E p \in Presses(k) : \E up \in Up :
          list_menu_handler(k, p[1], p[2], up)
    \/ \E k \in Keys : \E p \in Presses(k) : \E up \in Up :
          list_assignments_select_handler(k, p[1], p[2], up)
    \/ \E k \in Keys : \E p \in Presses(k) : \E up \in Up :
          item_action_handler(k, p[1], p[2], up)
    \/ \E k \in Keys : \E p \in Presses(k) : \E up \in Up :
          edit_date_handler(k, p[1], p[2], up)
    \/ \E k \in Keys : \E text \in DateTexts : \E up \in Up :
          edit_date_text_handler(k, text, up)
    \/ \E k \in Keys : \E p \in Presses(k) : \E up \in Up :
          edit_course_handler(k, p[1], p[2], up)

SpecOlder == InitOlder /\ [][NextOlder]_vars

-----------------------------------------------------------------------------
(* Properties.  A property of one handled update is an action property     *)
(* over the record ev' of that update: ev' names the session, the handler  *)
(* that ran and its input, the unprimed variables are the state before it. *)

\* the session of the update being handled, its scratch before and after
Session == ev'.key
Before == user_data[user_id(ev'.key)]
Scratch == user_data'[user_id(ev'.key)]

\* the update is a press of a button with this payload / with this prefix
Pressed(data) == ev'.input = Callback(data)
PressedLike(prefix) == ev'.input.kind = "callback" /\ StartsWith(ev'.input.data, prefix)

\* the update is a text message
Typed == ev'.input.kind = "text"

\* the update left the session where it was and wrote nothing
Untouched ==
    /\ state' = state
    /\ user_data' = user_data
    /\ db' = db
    /\ ev'.calls = <<>>

TerminalHandlers ==
    {"add_assignment_notes", "add_lab_notes", "add_project_notes", "add_course_ects"}

\* the texts of NumberTexts that are numbers, of DateTexts that are dates
NumericTexts == {<<"3">>, <<"-", "2">>}
CalendarDateTexts ==
    {<<"2025", "-", "12", "-", "20">>, <<" ", "2025", "-", "12", "-", "20">>}

\* C1: when a terminal Add state (assignment, lab or project notes, course
\* ECTS) handles Skip or an accepted text, exactly one create call is issued,
\* the whole scratch is cleared and the session goes to the main menu, whether
\* the create succeeded or not.
C1_TerminalSave ==
    [][(/\ ev'.handler \in TerminalHandlers
        /\ \/ Pressed(skip)
           \/ Typed /\ (ev'.handler = "add_course_ects" => ev'.input.data \in NumericTexts))
       => /\ Len(ev'.calls) = 1
          /\ ev'.calls[1].op = "create"
          /\ ~ev'.error
          /\ Scratch = EmptyDict
          /\ state'[Session] = "MAIN_MENU"
          /\ (~ev'.success => db' = db)]_vars

\* a create that failed has been answered: the session is at the main menu
\* with an empty scratch and the workspace is as it was
C1_Witness ==
    /\ ev.handler \in TerminalHandlers
    /\ Len(ev.calls) = 1
    /\ ~ev.success
    /\ ev.reply.text = "Error"
    /\ state[ev.key] = "MAIN_MENU"
    /\ user_data[user_id(ev.key)] = EmptyDict

AssignmentDraftStates ==
    {"ADD_ASSIGNMENT_COURSE", "ADD_ASSIGNMENT_DATE", "ADD_ASSIGNMENT_NOTES"}

\* the draft fields the scratch held before the update are still there
DraftKept ==
    \A f \in DOMAIN Before : f \in DOMAIN Scratch /\ Scratch[f] = Before[f]

\* what is written after the prefix on a button: its course, or its date
Label(data) == SubSeq(data, 3, Len(data))

\* C2: in a run of the Add-Assignment flow the draft takes the name as it was
\* typed, the course of the course button pressed and the date of the date
\* button pressed (or the date typed), keeps them through every other step
\* of the flow, and Skip on the notes issues one create carrying exactly
\* these three with empty notes and status "Not started"; the reply to a
\* successful create shows the name, the course and the date.
C2_AssignmentCarried ==
    [][/\ (ev'.handler = "add_assignment_name" /\ state'[Session] = "ADD_ASSIGNMENT_COURSE")
           => Scratch = Put(Before, "assignment_name", ev'.input.data)
       /\ (/\ ev'.handler = "add_assignment_course"
           /\ PressedLike(<<"course", "_">>))
           => /\ state'[Session] = "ADD_ASSIGNMENT_DATE"
              /\ Scratch = Put(Before, "assignment_course", Label(ev'.input.data))
       /\ (/\ ev'.handler = "add_assignment_date"
           /\ PressedLike(<<"date", "_">>)
           /\ ~Pressed(date_custom))
           => /\ state'[Session] = "ADD_ASSIGNMENT_NOTES"
              /\ Scratch = Put(Before, "assignment_date", Label(ev'.input.data))
       /\ (/\ ev'.handler = "add_assignment_date_text"
           /\ state'[Session] = "ADD_ASSIGNMENT_NOTES")
           => Scratch = Put(Before, "assignment_date", Strip(ev'.input.data))
       /\ (/\ state[Session] \in AssignmentDraftStates
           /\ state'[Session] \in AssignmentDraftStates)
           => DraftKept
       /\ (ev'.handler = "add_assignment_notes" /\ Pressed(skip))
           => /\ ev'.calls =
                   <<[op |-> "create", coll |-> "assignment", id |-> <<>>,
                      props |-> [Name |-> <<Before["assignment_name"]>>,
                                 CourseCode |-> <<Before["assignment_course"]>>,
                                 DueDate |-> <<Before["assignment_date"]>>,
                                 Notes |-> <<<<>>>>,
                                 status |-> <<<<"Not started">>>>]]>>
              /\ ev'.success
                   => /\ ev'.reply.text = "Assignment added!"
                      /\ ev'.reply.args.name = Before["assignment_name"]
                      /\ ev'.reply.args.course = Before["assignment_course"]
                      /\ ev'.reply.args.due = Before["assignment_date"]
                      /\ \E j \in 1..Len(db'.assignment) :
                            /\ ~db'.assignment[j].archived
                            /\ db'.assignment[j].props = ev'.calls[1].props]_vars

\* "Quiz 1" for MA201 due tomorrow was drafted and saved with Skip
C2_Witness ==
    /\ ev.handler = "add_assignment_notes"
    /\ ev.input = Callback(skip)
    /\ ev.success
    /\ ev.reply.args.name = <<"Quiz 1">>
    /\ ev.reply.args.course = <<"MA201">>
    /\ \E j \in 1..Len(db.assignment) :
          /\ db.assignment[j].props.Name = <<<<"Quiz 1">>>>
          /\ db.assignment[j].props.CourseCode = <<<<"MA201">>>>
          /\ db.assignment[j].props.DueDate = <<IsoOf(PlusDays(Today, 1))>>
          /\ db.assignment[j].props.status = <<<<"Not started">>>>

DateTextHandlers ==
    {"add_assignment_date_text", "add_lab_date_text", "add_project_date_text",
     "edit_date_text_handler"}

\* C4: a text that is no calendar date in a date state, or no number for the
\* semester or the ECTS, is answered in the same state: nothing is written to
\* the workspace and the scratch is as before; a calendar date typed in a date
\* state is taken: an Add flow moves on, the edit issues its update.
C4_ValidationKeepsState ==
    [][/\ (ev'.handler \in DateTextHandlers /\ ev'.input.data \notin CalendarDateTexts)
           => Untouched /\ ~ev'.error /\ ev'.reply.how = "send"
       /\ (/\ ev'.handler \in {"add_course_semester", "add_course_ects"}
           /\ Typed
           /\ ev'.input.data \notin NumericTexts)
           => Untouched /\ ~ev'.error /\ ev'.reply.how = "send"
       /\ (ev'.handler \in DateTextHandlers /\ ev'.input.data \in CalendarDateTexts)
           => /\ ~ev'.error
              /\ state'[Session] # state[Session]
              /\ ev'.handler = "edit_date_text_handler" => Len(ev'.calls) = 1
              /\ ev'.handler # "edit_date_text_handler"
                   => /\ state'[Session] \in {"ADD_ASSIGNMENT_NOTES", "ADD_LAB_DESCRIPTION",
                                               "ADD_PROJECT_NOTES"}
                      /\ \E f \in DOMAIN Scratch \ DOMAIN Before :
                            Scratch[f] = <<"2025", "-", "12", "-", "20">>]_vars

\* 30 February was typed as the due date of an assignment and turned down
C4_Witness ==
    /\ ev.handler = "add_assignment_date_text"
    /\ ev.input = Text(<<"2025", "-", "02", "-", "30">>)
    /\ ev.reply.text = "Invalid date format"
    /\ state[ev.key] = "ADD_ASSIGNMENT_DATE"
    /\ DOMAIN user_data[user_id(ev.key)] = {"assignment_name", "assignment_course"}

\* C8: Delete pressed on the selected item asks for confirmation and Cancel
\* brings the session back to the item's actions; neither step issues a
\* remote write, the selection (selected_item_id, selected_item_type) and the
\* workspace are as they were.
C8_DeleteThenCancel ==
    [][/\ (ev'.handler = "item_action_handler" /\ PressedLike(<<"delete", "_">>))
           => /\ state'[Session] = "CONFIRM_DELETE"
              /\ user_data' = user_data /\ db' = db /\ ev'.calls = <<>>
       /\ (ev'.handler = "confirm_delete_handler" /\ PressedLike(<<"cancel", "delete", "_">>))
           => /\ state'[Session] = "ITEM_ACTION"
              /\ user_data' = user_data /\ db' = db /\ ev'.calls = <<>>]_vars

\* Cancel was pressed: the item's actions are shown again and the selected
\* record is in the workspace, not archived
C8_Witness ==
    /\ ev.handler = "confirm_delete_handler"
    /\ ev.input.kind = "callback"
    /\ StartsWith(ev.input.data, <<"cancel", "delete", "_">>)
    /\ ev.reply.text = "What would you like to do?"
    /\ state[ev.key] = "ITEM_ACTION"
    /\ Has(user_data[user_id(ev.key)], {"selected_item_id", "selected_item_type"})
    /\ \E page \in AllPages(db) :
          page.id = user_data[user_id(ev.key)]["selected_item_id"] /\ ~page.archived

\* the update issued an archive call
Archives == ev'.calls # <<>> /\ ev'.calls[1].op = "archive"

\* C9: no page ever leaves its database; a page becomes archived only by an
\* archive call; an archive call is issued only by the confirm press in the
\* Delete-Confirm state; and the session enters that state only by the Delete
\* press in the Item Action state, so a Delete press precedes every archive.
C9_ArchiveOnlyConfirmed ==
    [][/\ \A c \in Collections :
             /\ Len(db'[c]) >= Len(db[c])
             /\ \A j \in 1..Len(db[c]) :
                   /\ db'[c][j].id = db[c][j].id
                   /\ (db'[c][j].archived /\ ~db[c][j].archived)
                        => Archives /\ ev'.calls[1].id = db[c][j].id
                   /\ db[c][j].archived => db'[c][j].archived
       /\ Archives
           => /\ state[Session] = "CONFIRM_DELETE"
              /\ ev'.handler = "confirm_delete_handler"
              /\ PressedLike(<<"confirm", "delete", "_">>)
       /\ (state'[Session] = "CONFIRM_DELETE" /\ state[Session] # "CONFIRM_DELETE")
           => /\ state[Session] = "ITEM_ACTION"
              /\ ev'.handler = "item_action_handler"
              /\ PressedLike(<<"delete", "_">>)]_vars

\* the selected assignment was archived on the confirm press
C9_Witness ==
    /\ ev.handler = "confirm_delete_handler"
    /\ ev.calls # <<>>
    /\ ev.success
    /\ \E j \in 1..Len(db.assignment) :
          db.assignment[j].archived /\ db.assignment[j].id = ev.calls[1].id

\* the buttons a state's handler names, for the states whose keyboard is fixed
\* or built from a fixed prefix
Recognised(st, data) ==
    CASE st = "MAIN_MENU" -> data \in main_menu_keyboard
      [] st = "ADD_MENU" -> data \in add_menu_keyboard
      [] st = "LIST_MENU" -> data \in list_menu_keyboard
      [] st = "UPCOMING_MENU" -> data \in upcoming_menu_keyboard
      [] st \in {"ADD_ASSIGNMENT_COURSE", "ADD_LAB_COURSE", "ADD_PROJECT_COURSE"} ->
             data = back_add \/ StartsWith(data, <<"course", "_">>)
      [] st \in {"ADD_ASSIGNMENT_DATE", "ADD_LAB_DATE", "ADD_PROJECT_DATE"} ->
             data = back_add \/ StartsWith(data, <<"date", "_">>)
      [] OTHER -> TRUE

\* C3: a press of a button that the state's handler does not name (a button
\* of another state's keyboard, still on an older message) leaves the state
\* and the scratch as they were and raises no error.
C3_UnrecognisedIgnored ==
    [][(ev'.input.kind = "callback" /\ ~Recognised(state[Session], ev'.input.data))
       => /\ ~ev'.error
          /\ state' = state
          /\ user_data' = user_data]_vars

\* C5: after a name typed while list_courses() gives no course, the session is
\* at the Add menu with the "no courses" message and the scratch holds no
\* draft field.
C5_NoDraftLeft ==
    (/\ ev.handler \in {"add_assignment_name", "add_lab_name", "add_project_name"}
     /\ ev.reply.text = "No courses found")
    => /\ state[ev.key] = "ADD_MENU"
       /\ user_data[user_id(ev.key)] = EmptyDict

\* the session's handler answers a press of this button
Answers(k, data) ==
    ENABLED (Next /\ ev'.key = k /\ ev'.input = Callback(data) /\ ev'.reply.how # "none")

\* C6: after the "not found" message of a pick-list, the session is in a state
\* whose handler answers the buttons of the menu shown with that message.
C6_SafeAfterMiss ==
    ev.reply.text = "Item not found" => \A data \in ev.reply.kb : Answers(ev.key, data)

\* the keyboard of the message displayed last in the session's chat
LatestKeyboard(k) == msgs[chat_id(k)][Len(msgs[chat_id(k)])]

\* C7: in every state of a started session, the message displayed last
\* offers a button that the handler of the session's state answers.
C7_NeverStuck ==
    \A k \in Keys :
        state[k] # "NONE" => \E data \in LatestKeyboard(k) : Answers(k, data)

-----------------------------------------------------------------------------
(* Two conversations of one user: the ConversationHandler keys its state by *)
(* (chat, user), the application keys user_data by user alone.              *)

OtherChat == "chat2"

InitTwo ==
    /\ state = [k \in {<<TheChat, TheUser>>, <<OtherChat, TheUser>>} |-> "NONE"]
    /\ user_data = [u \in {TheUser} |-> EmptyDict]
    /\ msgs = [c \in {TheChat, OtherChat} |-> <<>>]
    /\ kept = MaxMsgs
    /\ db = Store1
    /\ writes = 0
    /\ ev = NoEvent
    /\ op = NoOp
    /\ dispatch = Idle

\* the user drafts an assignment in the first chat and, meanwhile, opens the
\* menus in the second and starts a draft there
NextTwo ==
    LET first == <<TheChat, TheUser>>
    IN  \/ \E k \in Keys : start(k, "/start")
        \/ \E k \in Keys : cancel(k)
        \/ \E k \in Keys : \E p \in Presses(k) : main_menu_handler(k, p[1], p[2])
        \/ \E k \in Keys : \E p \in Presses(k) : add_menu_handler(k, p[1], p[2])
        \/ \E k \in Keys : \E text \in {<<"Homework 3">>} : \E up \in Up :
              add_assignment_name(k, text, up, up)
        \/ \E p \in Presses(first) : add_assignment_course(first, p[1], p[2])
        \/ \E p \in Presses(first) : add_assignment_date(first, p[1], p[2])
        \/ \E text \in CalendarDateTexts : add_assignment_date_text(first, text)
        \/ \E p \in Presses(first) : \E up \in Up :
              add_assignment_notes(first, p[1], Callback(p[2]), up)

SpecTwo == InitTwo /\ [][NextTwo]_vars

\* C10: handling an update of one session leaves the draft of every other
\* session that is inside the Add-Assignment flow as it was.
C10_SessionsIsolated ==
    [][\A k \in Keys :
          (k # Session /\ state[k] \in AssignmentDraftStates)
          => user_data'[user_id(k)] = user_data[user_id(k)]]_vars

-----------------------------------------------------------------------------
(* Scratch at the main menu; pick-lists and the records they show *)

\* C11: whenever a session is in the Main Menu state, its scratch holds no
\* draft field and no selected item.
C11_MainMenuScratchEmpty ==
    \A k \in Keys : state[k] = "MAIN_MENU" => user_data[user_id(k)] = EmptyDict

\* the pick-list handlers and the item type each one lists
SelectHandlers ==
    [list_assignments_select_handler |-> "assignment",
     list_labs_select_handler |-> "lab",
     list_projects_select_handler |-> "project"]

\* the records of a database that a query returns, and those with a title
LivePages(d, t) == {d[t][j] : j \in {j2 \in 1..Len(d[t]) : ~d[t][j2].archived}}
Titled(p) == "Name" \in DOMAIN p.props /\ p.props.Name # <<>> /\ p.props.Name[1] # <<>>
    /\ p.props.Name[1] # Untitled

\* record p comes before record q in a list by due date: earlier date, or the
\* same date and created earlier
ListedBefore(d, t, p, q) ==
    LET at(r) == CHOOSE j \in 1..Len(d[t]) : d[t][j] = r
    IN  \/ DateValue(p.props.DueDate[1]) < DateValue(q.props.DueDate[1])
        \/ /\ DateValue(p.props.DueDate[1]) = DateValue(q.props.DueDate[1])
           /\ at(p) <= at(q)

\* C12: a pick-list shown by the list menu has one button per titled record,
\* carrying the first 32 characters of its id; a press of such a button
\* either reports "not found" or selects, of the records now in the store
\* whose id starts with these characters, the one that comes first in the
\* list by due date, and shows that record.
C12_PrefixFirstMatch ==
    [][/\ \A t \in WorkTypes :
             (ev'.handler = "list_menu_handler" /\ state'[Session] = SelectState(t))
             => ev'.reply.kb =
                  {<<t, "_">> \o SubSeq(p.id, 1, 2) : p \in {q \in LivePages(db, t) : Titled(q)}}
                      \cup {back_list}
       /\ \A h \in DOMAIN SelectHandlers :
             LET t == SelectHandlers[h]
                 prefix == SubSeq(ev'.input.data, 3, Len(ev'.input.data))
                 hits == {p \in LivePages(db, t) : StartsWith(p.id, prefix)}
             IN  (ev'.handler = h /\ PressedLike(<<t, "_">>))
                 => \/ ev'.reply.text = "Item not found" /\ Scratch = Before
                    \/ \E p \in hits :
                          /\ \A q \in hits : ListedBefore(db, t, p, q)
                          /\ Scratch = Put(Put(Before, "selected_item_id", p.id),
                                           "selected_item_type", <<t>>)
                          /\ ev'.reply.args.name = p.props.Name[1]
                          /\ ev'.reply.args.due = p.props.DueDate[1]
                          /\ state'[Session] = "ITEM_ACTION"]_vars

\* two records share the pressed prefix, and the one selected is the one due
\* first, which was created second
C12_Witness ==
    /\ ev.handler = "list_assignments_select_handler"
    /\ ev.input.data = <<"assignment", "_", "a", "1">>
    /\ Cardinality({p \in LivePages(db, "assignment") : StartsWith(p.id, <<"a", "1">>)}) = 2
    /\ "selected_item_id" \in DOMAIN user_data[user_id(ev.key)]
    /\ user_data[user_id(ev.key)]["selected_item_id"] = <<"a", "1", "y">>
    /\ ev.reply.args.name = <<"Report">>

\* the names a reply shows in a listing
ShownNames(reply) ==
    UNION {{reply.args[f][j] : j \in 1..Len(reply.args[f])} :
             f \in DOMAIN reply.args \cap {"shown", "assignments", "labs", "projects"}}

\* C13: no reply lists a record without a title: no pick-list button stands
\* for such a record alone, no course button for an untitled course alone,
\* the course listing and the Upcoming view do not show the "Untitled"
\* placeholder; and a list or an Upcoming request over such records is
\* answered, not failed.
C13_UntitledHidden ==
    /\ Untitled \notin ShownNames(ev.reply)
    /\ <<>> \notin ShownNames(ev.reply)
    /\ \A t \in WorkTypes : \A p \in LivePages(db, t) :
          (/\ ~Titled(p)
           /\ \A q \in LivePages(db, t) : Titled(q) => SubSeq(q.id, 1, 2) # SubSeq(p.id, 1, 2))
          => <<t, "_">> \o SubSeq(p.id, 1, 2) \notin ev.reply.kb
    /\ \A p \in LivePages(db, "course") :
          (/\ ~Titled(p)
           /\ \A q \in LivePages(db, "course") :
                 Titled(q) => q.props.CourseCode # p.props.CourseCode)
          => <<"course", "_">> \o p.props.CourseCode[1] \notin ev.reply.kb
    /\ (/\ ev.handler \in {"list_menu_handler", "upcoming_menu_handler"}
        /\ ev.input.data \in list_menu_keyboard \cup upcoming_menu_keyboard)
       => ~ev.error

-----------------------------------------------------------------------------
(* mcp_server.py: the tool-facing peer of notion_service.py.  It writes and *)
(* reads the title property as "Title"                                      *)

mcp_add_assignment(title, course, due_date, notes, status) ==
    [op |-> "create", coll |-> "assignment", id |-> <<>>,
     props |-> [Title |-> <<title>>, DueDate |-> <<due_date>>, CourseCode |-> <<course>>,
                Notes |-> <<notes>>, status |-> <<status>>]]

mcp_add_lab(title, course, due_date, notes) ==
    [op |-> "create", coll |-> "lab", id |-> <<>>,
     props |-> [Title |-> <<title>>, DueDate |-> <<due_date>>, CourseCode |-> <<course>>,
                Notes |-> <<notes>>]]

mcp_add_project(title, course, due_date, notes) ==
    [op |-> "create", coll |-> "project", id |-> <<>>,
     props |-> [Title |-> <<title>>, DueDate |-> <<due_date>>, CourseCode |-> <<course>>,
                Notes |-> <<notes>>]]

\* props["Title"], props["Course Code"], props["Due Date"] of a page that
\* lacks one of them: KeyError
KeyErrorIn(props) == ~({"Title", "CourseCode", "DueDate"} \subseteq DOMAIN props)

\* the item built from a page: ... if props[...] else "Untitled" / "N/A" / "No date"
mcp_item(props) ==
    [title |-> IF props.Title = <<>> THEN Untitled ELSE props.Title[1],
     course |-> IF props.CourseCode = <<>> THEN <<"N/A">> ELSE props.CourseCode[1],
     due_date |-> IF props.DueDate = <<>> THEN NoDate ELSE props.DueDate[1]]

\* the items appended before a page raises, which ends the loop over the pages
RECURSIVE ItemsUntilError(_)
ItemsUntilError(pages) ==
    IF pages = <<>> \/ KeyErrorIn(Head(pages).props) THEN <<>>
    ELSE <<mcp_item(Head(pages).props)>> \o ItemsUntilError(Tail(pages))

\* query_upcoming_work: one try block per database around the query and the loop
query_upcoming_work(d, days, ups) ==
    LET of(coll, up) ==
            IF up
            THEN ItemsUntilError(InWindow(DatabasesQuery(d, coll, "Due Date"),
                                          IsoOf(Today), IsoOf(PlusDays(Today, days))))
            ELSE <<>>
    IN  [assignments |-> of("assignment", ups[1]),
         labs |-> of("lab", ups[2]),
         projects |-> of("project", ups[3])]

\* list_all_from_database: one try block around the query and the loop
list_all_from_database(d, coll, up) ==
    LET pages == IF up THEN DatabasesQuery(d, coll, "Due Date") ELSE <<>>
    IN  IF \E j \in 1..Len(pages) : KeyErrorIn(pages[j].props) THEN <<>>
        ELSE [j \in 1..Len(pages) |-> mcp_item(pages[j].props)]

-----------------------------------------------------------------------------
(* The two adapters as their callers see them: an operation is called with  *)
(* arguments on the workspace and returns, or raises                        *)

ServiceAdds == {"add_assignment", "add_lab", "add_project", "add_course"}
ServiceUpdates == {"update_status", "update_due_date", "update_course", "update_notes"}
ServiceWrites == ServiceAdds \cup ServiceUpdates \cup {"delete_item"}
ToolWrites == {"mcp_add_assignment", "mcp_add_lab", "mcp_add_project"}
Upcomings == {"get_upcoming", "query_upcoming_work"}

\* the request a write operation sends for its arguments; the optional
\* arguments are left at their defaults
WriteCall(name, args) ==
    CASE name = "add_assignment" ->
           add_assignment(args.name, args.course_code, args.due_date, <<>>, NotStarted)
      [] name = "add_lab" ->
           add_lab(args.name, args.course_code, args.due_date, <<>>, <<>>, NotStarted)
      [] name = "add_project" ->
           add_project(args.name, args.course_code, args.due_date, <<>>, NotStarted)
      [] name = "add_course" ->
           add_course(args.name, args.course_code, args.semester, <<>>, args.ects)
      [] name = "update_status" -> update_status(args.page_id, args.value)
      [] name = "update_due_date" -> update_due_date(args.page_id, args.value)
      [] name = "update_course" -> update_course(args.page_id, args.value)
      [] name = "update_notes" -> update_notes(args.page_id, args.value)
      [] name = "delete_item" -> delete_item(args.page_id)
      [] name = "mcp_add_assignment" ->
           mcp_add_assignment(args.name, args.course_code, args.due_date, <<>>, NotStarted)
      [] name = "mcp_add_lab" ->
           mcp_add_lab(args.name, args.course_code, args.due_date, <<>>)
      [] name = "mcp_add_project" ->
           mcp_add_project(args.name, args.course_code, args.due_date, <<>>)

\* notion_service.py's writes: return {"success": ..., "message": ...}
ServiceWrite(d, call, up) ==
    [raised |-> FALSE,
     result |-> [success |-> Success(d, call, up)],
     cause |-> IF Success(d, call, up) THEN "" ELSE "Error: str(e)"]

\* mcp_server.py's writes: return True, or print and raise
ToolWrite(d, call, up) ==
    [raised |-> ~Success(d, call, up),
     result |-> <<Success(d, call, up)>>,
     cause |-> IF Success(d, call, up) THEN "" ELSE "str(e)"]

\* the reads: return the list, the item or None, whatever happened
Returned(result) == [raised |-> FALSE, result |-> result, cause |-> ""]

\* what the call gives its caller: raised, or the value returned, and the
\* cause of a failure as far as the value carries it
Outcome(name, args, d, up) ==
    CASE name \in ServiceWrites -> ServiceWrite(d, WriteCall(name, args), up)
      [] name = "list" ->
           Returned(IF args = "course" THEN list_courses(d, up) ELSE list_items(d, args, up))
      [] name = "get_item_by_id" -> Returned(get_item_by_id(d, args, up))
      [] name = "get_upcoming" -> Returned(get_upcoming(d, args, up))
      [] name \in ToolWrites -> ToolWrite(d, WriteCall(name, args), up)
      [] name = "list_all_from_database" -> Returned(list_all_from_database(d, args, up))
      [] name = "query_upcoming_work" -> Returned(query_upcoming_work(d, args, up))

\* the record of one call: the operation, its arguments and what it gave
Call(name, args, up, out) ==
    [name |-> name, args |-> args, up |-> up, raised |-> out.raised,
     result |-> out.result, cause |-> out.cause]

\* the workspace after a write operation was called
Written(name, args, up) ==
    LET call == WriteCall(name, args)
    IN  /\ Success(db, call, up) => writes < MaxWrites
        /\ db' = After(db, call, up)
        /\ writes' = IF Success(db, call, up) THEN writes + 1 ELSE writes

(* The callers' inputs and the workspaces the adapters run on *)

\* a workspace whose title property is "Title", with a record left empty
StoreT ==
    [assignment |->
        <<[id |-> <<"a", "1", "x">>, archived |-> FALSE,
           props |-> [Title |-> <<<<"Essay">>>>, CourseCode |-> <<<<"CS101">>>>,
                      DueDate |-> <<IsoOf(PlusDays(Today, 7))>>, Notes |-> <<>>,
                      status |-> <<NotStarted>>]],
          [id |-> <<"a", "2", "x">>, archived |-> FALSE,
           props |-> [Title |-> <<>>, CourseCode |-> <<>>, DueDate |-> <<>>, Notes |-> <<>>,
                      status |-> <<>>]],
          [id |-> <<"a", "3", "x">>, archived |-> FALSE,
           props |-> [Title |-> <<<<"Quiz 1">>>>, CourseCode |-> <<<<"MA201">>>>,
                      DueDate |-> <<IsoOf(Today)>>, Notes |-> <<>>,
                      status |-> <<<<"Done">>>>]]>>,
     lab |-> <<>>,
     project |->
        <<[id |-> <<"p", "1", "x">>, archived |-> FALSE,
           props |-> [Title |-> <<<<"Final Project">>>>, CourseCode |-> <<<<"CS101">>>>,
                      DueDate |-> <<IsoOf(PlusDays(Today, 8))>>, Notes |-> <<>>,
                      status |-> <<NotStarted>>]]>>,
     course |-> <<>>]

\* a workspace whose title property is "Name", with records on the edges of
\* the windows, one past due and one with every property empty
StoreN ==
    [assignment |->
        <<[id |-> <<"a", "1", "x">>, archived |-> FALSE,
           props |-> WorkProps(<<"Essay">>, <<"CS101">>, IsoOf(PlusDays(Today, 7)))],
          [id |-> <<"a", "2", "x">>, archived |-> FALSE,
           props |-> [p \in DOMAIN WorkProps(<<>>, <<>>, <<>>) |-> <<>>]],
          [id |-> <<"a", "3", "x">>, archived |-> FALSE,
           props |-> WorkProps(<<"Quiz 1">>, <<"MA201">>, IsoOf(Today))],
          [id |-> <<"a", "4", "x">>, archived |-> FALSE,
           props |-> WorkProps(<<"Old sheet">>, <<"MA201">>, <<"2025", "-", "12", "-", "17">>)]>>,
     lab |-> <<>>,
     project |->
        <<[id |-> <<"p", "1", "x">>, archived |-> FALSE,
           props |-> WorkProps(<<"Final Project">>, <<"CS101">>, IsoOf(PlusDays(Today, 8)))]>>,
     course |-> <<>>]

AdapterStores == {Store0, Store1, StoreT, StoreN}

SubmittedDates == {IsoOf(PlusDays(Today, 3)), <<"next friday">>}
PageIds == {<<"a", "1", "x">>, <<"z", "9", "x">>}
DaysValues == {0, 7, 8}
\* which of the three queries of an upcoming request go through
QueryUps == {<<TRUE, TRUE, TRUE>>, <<FALSE, TRUE, TRUE>>, <<FALSE, FALSE, FALSE>>}

InitAdapter ==
    /\ state = <<>>
    /\ user_data = <<>>
    /\ msgs = <<>>
    /\ kept = MaxMsgs
    /\ db \in AdapterStores
    /\ writes = 0
    /\ ev = NoEvent
    /\ op = NoOp
    /\ dispatch = Idle

\* the front-ends are not running
FrontEndsIdle == UNCHANGED <<state, user_data, msgs, kept, ev, dispatch>>

\* the arguments of the add operations
WorkArgs(name, course_code, due_date) ==
    [name |-> name, course_code |-> course_code, due_date |-> due_date]

\* notion_service.add_assignment / add_lab / add_project
AdapterAdd ==
    \E due_date \in SubmittedDates : \E up \in BOOLEAN :
        \E c \in {<<"add_assignment", WorkArgs(<<"Homework 3">>, <<"CS101">>, due_date)>>,
                  <<"add_lab", WorkArgs(<<"Lab 7">>, <<"CS101">>, due_date)>>,
                  <<"add_project", WorkArgs(<<"Demo">>, <<"MA201">>, due_date)>>} :
            /\ op' = Call(c[1], c[2], up, ServiceWrite(db, WriteCall(c[1], c[2]), up))
            /\ Written(c[1], c[2], up)
            /\ FrontEndsIdle

\* notion_service.add_course
AdapterAddCourse ==
    \E up \in BOOLEAN :
        LET args == [name |-> <<"Physics">>, course_code |-> <<"PHY202">>,
                     semester |-> 3, ects |-> 6]
        IN  /\ op' = Call("add_course", args, up,
                           ServiceWrite(db, WriteCall("add_course", args), up))
            /\ Written("add_course", args, up)
            /\ FrontEndsIdle

\* notion_service.list_assignments / list_labs / list_projects / list_courses
AdapterList ==
    \E coll \in Collections : \E up \in BOOLEAN :
        /\ op' = Call("list", coll, up,
                       Returned(IF coll = "course" THEN list_courses(db, up)
                                ELSE list_items(db, coll, up)))
        /\ UNCHANGED <<db, writes>>
        /\ FrontEndsIdle

AdapterGet ==
    \E page_id \in PageIds : \E up \in BOOLEAN :
        /\ op' = Call("get_item_by_id", page_id, up, Returned(get_item_by_id(db, page_id, up)))
        /\ UNCHANGED <<db, writes>>
        /\ FrontEndsIdle

\* notion_service.update_status / update_due_date / update_course / update_notes
AdapterUpdate ==
    \E page_id \in PageIds : \E up \in BOOLEAN :
        \E c \in {<<"update_status", <<"Done">>>>,
                  <<"update_due_date", IsoOf(PlusDays(Today, 1))>>,
                  <<"update_course", <<"MA201">>>>,
                  <<"update_notes", <<"chapter 2">>>>} :
            LET args == [page_id |-> page_id, value |-> c[2]]
            IN  /\ op' = Call(c[1], args, up, ServiceWrite(db, WriteCall(c[1], args), up))
                /\ Written(c[1], args, up)
                /\ FrontEndsIdle

AdapterDelete ==
    \E page_id \in PageIds : \E up \in BOOLEAN :
        /\ op' = Call("delete_item", [page_id |-> page_id], up,
                       ServiceWrite(db, delete_item(page_id), up))
        /\ Written("delete_item", [page_id |-> page_id], up)
        /\ FrontEndsIdle

AdapterUpcoming ==
    \E days \in DaysValues : \E ups \in QueryUps :
        /\ op' = Call("get_upcoming", days, ups, Returned(get_upcoming(db, days, ups)))
        /\ UNCHANGED <<db, writes>>
        /\ FrontEndsIdle

\* mcp_server.add_assignment / add_lab / add_project
ToolAdd ==
    \E due_date \in SubmittedDates : \E up \in BOOLEAN :
        \E c \in {<<"mcp_add_assignment", WorkArgs(<<"Homework 3">>, <<"CS101">>, due_date)>>,
                  <<"mcp_add_lab", WorkArgs(<<"Lab 7">>, <<"CS101">>, due_date)>>,
                  <<"mcp_add_project", WorkArgs(<<"Demo">>, <<"MA201">>, due_date)>>} :
            /\ op' = Call(c[1], c[2], up, ToolWrite(db, WriteCall(c[1], c[2]), up))
            /\ Written(c[1], c[2], up)
            /\ FrontEndsIdle

ToolList ==
    \E coll \in WorkTypes : \E up \in BOOLEAN :
        /\ op' = Call("list_all_from_database", coll, up,
                       Returned(list_all_from_database(db, coll, up)))
        /\ UNCHANGED <<db, writes>>
        /\ FrontEndsIdle

ToolUpcoming ==
    \E days \in DaysValues : \E ups \in QueryUps :
        /\ op' = Call("query_upcoming_work", days, ups,
                       Returned(query_upcoming_work(db, days, ups)))
        /\ UNCHANGED <<db, writes>>
        /\ FrontEndsIdle

NextAdapter ==
    \/ AdapterAdd
    \/ AdapterAddCourse
    \/ AdapterList
    \/ AdapterGet
    \/ AdapterUpdate
    \/ AdapterDelete
    \/ AdapterUpcoming
    \/ ToolAdd
    \/ ToolList
    \/ ToolUpcoming

SpecAdapter == InitAdapter /\ [][NextAdapter]_vars

-----------------------------------------------------------------------------
(* The adapters' contract *)

\* the remote call of the operation failed (one of the three, for upcoming)
RemoteFailed(o) ==
    /\ o.name # ""
    /\ IF o.name \in Upcomings THEN \E i \in 1..3 : ~o.up[i] ELSE ~o.up

\* every remote call going through
AllUp(name) == IF name \in Upcomings THEN <<TRUE, TRUE, TRUE>> ELSE TRUE

\* the operation, called with these arguments on workspace d, succeeds
Succeeds(name, args, d) ==
    CASE name \in ServiceWrites \cup ToolWrites -> Success(d, WriteCall(name, args), TRUE)
      [] name = "get_item_by_id" -> PageExists(d, args)
      [] OTHER -> TRUE

\* C14: an operation whose remote call fails does not raise; what it returns
\* carries a cause and differs from what the operation returns, with the same
\* arguments, on any workspace where it succeeds.
C14_FailureReturned ==
    RemoteFailed(op)
    => /\ ~op.raised
       /\ op.cause # ""
       /\ \A d \in AdapterStores :
             Succeeds(op.name, op.args, d)
             => Outcome(op.name, op.args, d, AllUp(op.name)).result # op.result

\* the three queries of an upcoming request
UpcomingKeys == <<"assignments", "labs", "projects">>
UpcomingTypes == <<"assignment", "lab", "project">>

\* the records of a database due from today to today + days
DueWithin(d, t, days) ==
    {p \in LivePages(d, t) :
        /\ p.props.DueDate # <<>>
        /\ DateValue(p.props.DueDate[1]) >= DateValue(IsoOf(Today))
        /\ DateValue(p.props.DueDate[1]) <= DateValue(IsoOf(PlusDays(Today, days)))}

Created(o) ==
    \/ o.name \in ServiceAdds /\ o.result.success
    \/ o.name \in ToolWrites /\ ~o.raised

\* the database each add operation is for
AddsTo ==
    [add_assignment |-> "assignment", add_lab |-> "lab", add_project |-> "project",
     add_course |-> "course", mcp_add_assignment |-> "assignment", mcp_add_lab |-> "lab",
     mcp_add_project |-> "project"]

Extracted(props, k, sentinel) ==
    IF k \in DOMAIN props /\ props[k] # <<>> THEN props[k][1] ELSE sentinel

\* C20: a list that goes through gives one item per record of the database,
\* in the order of the query, with "Untitled" for a missing or empty title,
\* the empty string for a missing or empty course code, "No date" for a
\* missing or null date and, where a status is reported, "Not started" for a
\* missing or null status; this for notion_service.py and for mcp_server.py.
C20_SentinelsSubstituted ==
    (op.name \in {"list", "list_all_from_database"} /\ op.args \in WorkTypes /\ op.up)
    => LET pages == DatabasesQuery(db, op.args, "Due Date")
           res == op.result
       IN  /\ ~op.raised
           /\ Len(res) = Len(pages)
           /\ \A j \in 1..Len(res) :
                 IF op.name = "list"
                 THEN /\ res[j].name = Extracted(pages[j].props, "Name", Untitled)
                      /\ res[j].course_code = Extracted(pages[j].props, "CourseCode", <<>>)
                      /\ res[j].due_date = Extracted(pages[j].props, "DueDate", NoDate)
                      /\ res[j].status = Extracted(pages[j].props, "status", NotStarted)
                      /\ res[j].notes = Extracted(pages[j].props, "Notes", <<>>)
                 ELSE /\ res[j].title = Extracted(pages[j].props, "Title", Untitled)
                      /\ res[j].course = Extracted(pages[j].props, "CourseCode", <<>>)
                      /\ res[j].due_date = Extracted(pages[j].props, "DueDate", NoDate)

-----------------------------------------------------------------------------
(* bot_mcp.py: the natural-language front-end.  handle_message passes the   *)
(* text to call_claude_with_mcp, a loop of model calls and tool executions, *)
(* and replies with the string it returns                                   *)

\* the rounds of invocations the model asks for in the handling of one message
MaxRounds == 2

\* the content blocks of a model response
TextBlock(text) == [type |-> "text", text |-> text]
ToolUseBlock(id, name, input) == [type |-> "tool_use", id |-> id, name |-> name, input |-> input]

\* the tool_use blocks of a content, in its order
RECURSIVE ToolUses(_)
ToolUses(content) ==
    IF content = <<>> THEN <<>>
    ELSE (IF Head(content).type = "tool_use" THEN <<Head(content)>> ELSE <<>>)
         \o ToolUses(Tail(content))

\* a response asks for invocations exactly when it stops for tool use
FinalAnswer == [stop_reason |-> "end_turn", content |-> <<TextBlock(<<"All set.">>)>>]

ToolRequests ==
    {[stop_reason |-> "tool_use",
      content |-> <<TextBlock(<<"Adding it.">>),
                    ToolUseBlock("toolu_1", "add_assignment",
                                 [title |-> <<"Homework 3">>, course |-> <<"CS101">>,
                                  due_date |-> IsoOf(PlusDays(Today, 3))])>>],
     \* the first invocation lacks a required argument
     [stop_reason |-> "tool_use",
      content |-> <<ToolUseBlock("toolu_2", "add_lab",
                                 [course |-> <<"CS101">>,
                                  due_date |-> IsoOf(PlusDays(Today, 5))]),
                    ToolUseBlock("toolu_3", "query_upcoming_work", <<>>)>>],
     \* the second invocation names a tool the dispatcher does not have
     [stop_reason |-> "tool_use",
      content |-> <<ToolUseBlock("toolu_4", "add_project",
                                 [title |-> <<"Demo">>, course |-> <<"MA201">>,
                                  due_date |-> IsoOf(PlusDays(Today, 8))]),
                    ToolUseBlock("toolu_5", "list_assignments", <<>>)>>],
     \* the status is none of the values the tool's schema lists
     [stop_reason |-> "tool_use",
      content |-> <<ToolUseBlock("toolu_6", "add_assignment",
                                 [title |-> <<"Quiz 1">>, course |-> <<"CS101">>,
                                  due_date |-> IsoOf(PlusDays(Today, 3)),
                                  notes |-> <<"chapter 2">>,
                                  status |-> <<"Completed">>])>>]}

Responses == {FinalAnswer} \cup ToolRequests

\* tool_input.get("days", 7)
DaysOf(input) == IF "days" \in DOMAIN input THEN input.days ELSE 7

\* tool_input.get("notes", ""), tool_input.get("status", "Not started")
NotesOf(input) == IF "notes" \in DOMAIN input THEN input.notes ELSE <<>>
StatusOf(input) == IF "status" \in DOMAIN input THEN input.status ELSE NotStarted

\* the request of an add tool: tool_input["title"], ["course"], ["due_date"],
\* notes and status as given or at their defaults
ToolCall(name, input) ==
    CASE name = "add_assignment" ->
           mcp_add_assignment(input.title, input.course, input.due_date,
                              NotesOf(input), StatusOf(input))
      [] name = "add_lab" ->
           mcp_add_lab(input.title, input.course, input.due_date, NotesOf(input))
      [] name = "add_project" ->
           mcp_add_project(input.title, input.course, input.due_date, NotesOf(input))

AddTools == {"add_assignment", "add_lab", "add_project"}

\* the body with a seeded fault: the add tool swallows the failure of the
\* create call, as the adapter of the button-driven flow does, and returns
ToolBodySwallowing(name, input, d, up) ==
    CASE name \in AddTools /\ ~({"title", "course", "due_date"} \subseteq DOMAIN input) ->
           [raised |-> TRUE, written |-> FALSE, content |-> [text |-> "", value |-> <<>>]]
      [] name \in AddTools /\ {"title", "course", "due_date"} \subseteq DOMAIN input ->
           [raised |-> FALSE,
            written |-> Success(d, ToolCall(name, input), up),
            content |-> [text |-> "added successfully", value |-> name]]
      [] name = "query_upcoming_work" ->
           [raised |-> FALSE, written |-> FALSE,
            content |-> [text |-> "json.dumps(result)",
                         value |-> query_upcoming_work(d, DaysOf(input), <<up, up, up>>)]]
      [] OTHER ->
           [raised |-> FALSE, written |-> FALSE,
            content |-> [text |-> "Unknown tool", value |-> name]]

\* the body of the try statement: the if-chain over the tool name
ToolBody(name, input, d, up) ==
    CASE name \in AddTools /\ ~({"title", "course", "due_date"} \subseteq DOMAIN input) ->
           \* KeyError on the missing argument, before the tool is called
           [raised |-> TRUE, written |-> FALSE, content |-> [text |-> "", value |-> <<>>]]
      [] name \in AddTools /\ {"title", "course", "due_date"} \subseteq DOMAIN input ->
           [raised |-> ~Success(d, ToolCall(name, input), up),
            written |-> Success(d, ToolCall(name, input), up),
            content |-> [text |-> "added successfully", value |-> name]]
      [] name = "query_upcoming_work" ->
           [raised |-> FALSE, written |-> FALSE,
            content |-> [text |-> "json.dumps(result)",
                         value |-> query_upcoming_work(d, DaysOf(input), <<up, up, up>>)]]
      [] OTHER ->
           [raised |-> FALSE, written |-> FALSE,
            content |-> [text |-> "Unknown tool", value |-> name]]

ErrorResult == [text |-> "Error: str(e)", value |-> <<>>]

\* a try statement with a seeded fault: the exception leaves it
TryToolUncaught(name, input, d, up) ==
    LET body == ToolBody(name, input, d, up)
    IN  [raised |-> body.raised, thrown |-> body.raised, written |-> body.written,
         content |-> body.content]

\* try: ... except Exception as e: tool_result = "Error: " + str(e)
TryTool(name, input, d, up) ==
    LET body == ToolBody(name, input, d, up)
    IN  [raised |-> FALSE, thrown |-> body.raised, written |-> body.written,
         content |-> IF body.raised THEN ErrorResult ELSE body.content]

\* tool_results.append with a seeded fault: the result goes to the front
Prepended(tool_results, id, content) ==
    <<[type |-> "tool_result", tool_use_id |-> id, content |-> content]>> \o tool_results

\* tool_results.append({"type": "tool_result", "tool_use_id": ..., "content": ...})
Appended(tool_results, id, content) ==
    Append(tool_results, [type |-> "tool_result", tool_use_id |-> id, content |-> content])

\* a loop test with a seeded fault: the loop gives up after one round
LoopContinuesCapped(response, rounds) == response.stop_reason = "tool_use" /\ rounds < 1

\* while response.stop_reason == "tool_use"
LoopContinues(response, rounds) == response.stop_reason = "tool_use"

\* the text blocks of the response, joined
RECURSIVE FinalText(_)
FinalText(content) ==
    IF content = <<>> THEN <<>>
    ELSE (IF Head(content).type = "text" THEN Head(content).text ELSE <<>>)
         \o FinalText(Tail(content))

\* except Exception as e: return "Error communicating with Claude: " + str(e)
ErrorCommunicating == <<"Error communicating with Claude: ", "str(e)">>

UserMessages == {<<"add homework 3 for CS101">>, <<"what is due this week?">>}

InitDispatch ==
    /\ state = <<>>
    /\ user_data = <<>>
    /\ msgs = <<>>
    /\ kept = MaxMsgs
    /\ db \in {Store0, StoreT}
    /\ writes = 0
    /\ ev = NoEvent
    /\ op = NoOp
    /\ dispatch = Idle

\* the button-driven front-end and the adapters' other callers are not running
DispatcherOnly == UNCHANGED <<state, user_data, msgs, kept, ev, op>>

\* the names of the tools list passed to every messages.create call
tools == {"add_assignment", "add_lab", "add_project", "query_upcoming_work"}

\* handle_message: the text becomes the transcript's first message, which is
\* submitted with the tools list
handle_message ==
    \E user_message \in UserMessages :
        /\ dispatch.pc = "idle"
        /\ dispatch' = [dispatch EXCEPT !.pc = "calling",
                                        !.messages = <<[role |-> "user", content |-> user_message]>>,
                                        !.tools = tools]
        /\ UNCHANGED <<db, writes>>
        /\ DispatcherOnly

\* anthropic_client.messages.create(...) returns a response
ModelResponds ==
    \E response \in Responses :
        /\ dispatch.pc = "calling"
        /\ response.stop_reason = "tool_use" => dispatch.rounds < MaxRounds
        /\ dispatch' = [dispatch EXCEPT !.pc = "while", !.response = response,
                                        !.requests = @ + 1]
        /\ UNCHANGED <<db, writes>>
        /\ DispatcherOnly

\* anthropic_client.messages.create(...) raises: the outer except returns the
\* error text and handle_message replies with it
ModelFails ==
    /\ dispatch.pc = "calling"
    /\ dispatch' = [dispatch EXCEPT !.pc = "replied", !.requests = @ + 1, !.failed = TRUE,
                                    !.reply = ErrorCommunicating]
    /\ UNCHANGED <<db, writes>>
    /\ DispatcherOnly

\* the loop test holds: tool_results = [] and the for loop starts
IterateLoop ==
    /\ dispatch.pc = "while"
    /\ LoopContinues(dispatch.response, dispatch.rounds)
    /\ dispatch' = [dispatch EXCEPT !.pc = "for", !.i = 1, !.tool_results = <<>>]
    /\ UNCHANGED <<db, writes>>
    /\ DispatcherOnly

\* one content block of the for loop: a tool_use block is executed and its
\* result appended
ForBlock ==
    \E up \in BOOLEAN :
        LET block == dispatch.response.content[dispatch.i]
            tried == TryTool(block.name, block.input, db, up)
        IN  /\ dispatch.pc = "for"
            /\ dispatch.i <= Len(dispatch.response.content)
            /\ IF block.type # "tool_use"
               THEN /\ up
                    /\ dispatch' = [dispatch EXCEPT !.i = @ + 1]
                    /\ UNCHANGED <<db, writes>>
               ELSE /\ dispatch' =
                          IF tried.raised
                          THEN [dispatch EXCEPT !.pc = "replied", !.failed = TRUE,
                                                !.reply = ErrorCommunicating,
                                                !.thrown = IF tried.thrown
                                                           THEN Append(@, <<dispatch.rounds, block.id>>)
                                                           ELSE @]
                          ELSE [dispatch EXCEPT !.i = @ + 1,
                                                !.tool_results = Appended(@, block.id, tried.content),
                                                !.thrown = IF tried.thrown
                                                           THEN Append(@, <<dispatch.rounds, block.id>>)
                                                           ELSE @]
                    /\ db' = IF tried.written THEN After(db, ToolCall(block.name, block.input), up)
                             ELSE db
                    /\ writes' = IF tried.written THEN writes + 1 ELSE writes
            /\ DispatcherOnly

\* after the for loop: the response and the results join the transcript,
\* which goes to the model again
Resubmit ==
    /\ dispatch.pc = "for"
    /\ dispatch.i > Len(dispatch.response.content)
    /\ dispatch' = [dispatch EXCEPT
                       !.pc = "calling",
                       !.messages = @ \o <<[role |-> "assistant",
                                            content |-> dispatch.response.content],
                                           [role |-> "user",
                                            content |-> dispatch.tool_results]>>,
                       !.rounds = @ + 1]
    /\ UNCHANGED <<db, writes>>
    /\ DispatcherOnly

\* the loop test fails: the text of the response is returned and
\* handle_message replies with it
ReturnFinal ==
    /\ dispatch.pc = "while"
    /\ ~LoopContinues(dispatch.response, dispatch.rounds)
    /\ dispatch' = [dispatch EXCEPT !.pc = "replied",
                                    !.reply = FinalText(dispatch.response.content)]
    /\ UNCHANGED <<db, writes>>
    /\ DispatcherOnly

NextDispatch ==
    \/ handle_message
    \/ ModelResponds
    \/ ModelFails
    \/ IterateLoop
    \/ ForBlock
    \/ Resubmit
    \/ ReturnFinal

SpecDispatch == InitDispatch /\ [][NextDispatch]_vars

-----------------------------------------------------------------------------
(* The dispatcher's contract *)

\* the ids of the invocations a content asks for, and of a list of results
RequestedIds(content) == [j \in 1..Len(ToolUses(content)) |-> ToolUses(content)[j].id]
ResultIds(results) == [j \in 1..Len(results) |-> results[j].tool_use_id]

\* every response in the transcript is followed by its results, one for each
\* invocation it asks for, tagged with the invocation's id, in its order; the
\* results gathered in the for loop are those of the blocks gone through
InvocationsAnswered ==
    /\ \A j \in 1..Len(dispatch.messages) :
          dispatch.messages[j].role = "assistant"
          => /\ j < Len(dispatch.messages)
             /\ dispatch.messages[j + 1].role = "user"
             /\ ResultIds(dispatch.messages[j + 1].content)
                  = RequestedIds(dispatch.messages[j].content)
    /\ dispatch.pc = "calling" => dispatch.messages[Len(dispatch.messages)].role = "user"
    /\ dispatch.pc = "for"
       => ResultIds(dispatch.tool_results)
            = RequestedIds(SubSeq(dispatch.response.content, 1, dispatch.i - 1))

\* C15 as stated: a reply is given only after a response that asks for no
\* invocation, and every response that asks for invocations has one result
\* for each, tagged and in order, in the transcript that is resubmitted.
C15_ReplyOnlyAfterFinalAnswer ==
    /\ dispatch.pc = "replied"
       => /\ dispatch.response # NoResponse
          /\ ToolUses(dispatch.response.content) = <<>>
    /\ InvocationsAnswered

\* C15: a reply is given only after a response that asks for no invocation,
\* and is its text, or after a model call that failed, and is the error
\* text; every response that asks for invocations has one result for each,
\* tagged with the invocation's id and in request order, in the transcript
\* that is resubmitted.
C15_ReplyAfterFinalAnswerOrFailure ==
    /\ dispatch.pc = "replied"
       => IF dispatch.failed
          THEN dispatch.reply = ErrorCommunicating
          ELSE /\ dispatch.response # NoResponse
               /\ ToolUses(dispatch.response.content) = <<>>
               /\ dispatch.reply = FinalText(dispatch.response.content)
    /\ InvocationsAnswered

\* a reply after a round of two invocations, both answered
C15_Witness ==
    /\ dispatch.pc = "replied"
    /\ ~dispatch.failed
    /\ Len(dispatch.messages) = 3
    /\ Len(ToolUses(dispatch.messages[2].content)) = 2
    /\ ResultIds(dispatch.messages[3].content) = <<"toolu_4", "toolu_5">>

\* C16: an invocation whose operation raised has the error text as its
\* result; the for loop went on with the next block, and the results that
\* were resubmitted for that response are as many as its invocations.
C16_ToolErrorFedBack ==
    \A t \in 1..Len(dispatch.thrown) :
        LET round == dispatch.thrown[t][1]
            id == dispatch.thrown[t][2]
            results == IF round < dispatch.rounds
                       THEN dispatch.messages[2 * round + 3].content
                       ELSE dispatch.tool_results
        IN  /\ \E j \in 1..Len(results) :
                  results[j].tool_use_id = id /\ results[j].content = ErrorResult
            /\ IF round < dispatch.rounds
               THEN Len(results) = Len(ToolUses(dispatch.messages[2 * round + 2].content))
               ELSE /\ dispatch.pc = "for"
                    /\ Len(results)
                         = Len(ToolUses(SubSeq(dispatch.response.content, 1, dispatch.i - 1)))

\* the add without a title raised, the query after it was executed, and both
\* results were resubmitted
C16_Witness ==
    /\ dispatch.rounds >= 1
    /\ \E t \in 1..Len(dispatch.thrown) : dispatch.thrown[t] = <<0, "toolu_2">>
    /\ Len(dispatch.messages[3].content) = 2
    /\ dispatch.messages[3].content[1].content = ErrorResult
    /\ dispatch.messages[3].content[2].content.text = "json.dumps(result)"

\* C17: whatever the number of rounds gone through, a response that asks for
\* invocations is followed by their execution and never by the reply, and a
\* response that asks for none by the reply; a reply is given only after such
\* a response or a failed model call; every round costs one model request.
C17_NoIterationCap ==
    /\ dispatch.pc = "while"
       => IF ToolUses(dispatch.response.content) # <<>>
          THEN ENABLED IterateLoop /\ ~ENABLED ReturnFinal
          ELSE ENABLED ReturnFinal /\ ~ENABLED IterateLoop
    /\ dispatch.pc = "replied"
       => dispatch.failed \/ dispatch.response.stop_reason = "end_turn"
    /\ dispatch.requests
         = dispatch.rounds + (IF dispatch.pc \in {"idle", "calling"} THEN 0 ELSE 1)

\* the model asked for invocations in each of its MaxRounds responses: the
\* dispatcher executed them, has not replied and calls the model again
C17_Witness ==
    /\ dispatch.pc = "calling"
    /\ dispatch.rounds = MaxRounds
    /\ dispatch.requests = MaxRounds
    /\ dispatch.reply = <<>>
    /\ Len(dispatch.messages) = 2 * MaxRounds + 1


-----------------------------------------------------------------------------
(* The numbers of a course *)

\* the create calls of the step
CreateCalls == {j \in 1..Len(ev'.calls) : ev'.calls[j].op = "create"}

\* C23: every create call of the Add-Course flow carries a semester that is a
\* positive integer and an ECTS value that is a non-negative integer.
C23_CourseNumbersInRange ==
    [][ev'.handler = "add_course_ects"
       => \A j \in CreateCalls :
             /\ ev'.calls[j].props.Semester \in Nat \ {0}
             /\ ev'.calls[j].props.ECTS \in Nat]_vars


-----------------------------------------------------------------------------
(* The order of the states of an Add flow *)

\* the states table of the conversation handler, Add flows: the states of
\* each item type in the order the handlers return them
StateSequence ==
    [assignment |-> <<"ADD_ASSIGNMENT_NAME", "ADD_ASSIGNMENT_COURSE",
                      "ADD_ASSIGNMENT_DATE", "ADD_ASSIGNMENT_NOTES">>,
     lab |-> <<"ADD_LAB_NAME", "ADD_LAB_COURSE", "ADD_LAB_DATE",
               "ADD_LAB_DESCRIPTION", "ADD_LAB_NOTES">>,
     project |-> <<"ADD_PROJECT_NAME", "ADD_PROJECT_COURSE",
                   "ADD_PROJECT_DATE", "ADD_PROJECT_NOTES">>,
     course |-> <<"ADD_COURSE_NAME", "ADD_COURSE_CODE", "ADD_COURSE_SEMESTER",
                  "ADD_COURSE_PROFESSOR", "ADD_COURSE_ECTS">>]

AddStates ==
    UNION {{StateSequence[t][n] : n \in 1..Len(StateSequence[t])} : t \in Collections}

\* the state before s in its sequence; the Add menu before the first
Predecessor(s) ==
    LET t == CHOOSE c \in Collections : \E n \in 1..Len(StateSequence[c]) : StateSequence[c][n] = s
        n == CHOOSE m \in 1..Len(StateSequence[t]) : StateSequence[t][m] = s
    IN  IF n = 1 THEN "ADD_MENU" ELSE StateSequence[t][n - 1]

LastState(t) == StateSequence[t][Len(StateSequence[t])]

\* C25: a session enters a state of an Add flow only from the state before it
\* in the fixed order of its item type (the Add menu before the Name state),
\* and a create call for an item type is issued only in the last state of
\* that type's sequence; so a create follows the whole sequence, in order,
\* since the session last left the Add menu.
C25_FixedOrder ==
    [][/\ \A k \in DOMAIN state :
             (state'[k] \in AddStates /\ state'[k] # state[k])
                => state[k] = Predecessor(state'[k])
       /\ \A j \in CreateCalls : state[Session] = LastState(ev'.calls[j].coll)]_vars

\* a lab was created: the longest of the sequences was walked to its end
C25_Witness == ev.handler = "add_lab_notes" /\ ev.success


-----------------------------------------------------------------------------
(* Validation loops *)

\* a text message was answered and the session is in the state it was in:
\* the content of the input was rejected and asked for again
Rejected ==
    /\ Typed
    /\ ~ev'.error
    /\ ev'.reply.how # "none"
    /\ state'[Session] = state[Session]

\* C26 as stated: only the date text handlers reject the content of an input
\* and re-enter their state.
C26_DateCheckOnlyLoop ==
    [][Rejected => ev'.handler \in DateTextHandlers]_vars

IntegerHandlers == {"add_course_semester", "add_course_ects"}

\* C26, amended: the date text handlers and the integer checks of the course
\* semester and the course ECTS are the only handlers that reject the content
\* of an input and re-enter their state; a rejection writes nothing.
C26_DateAndIntegerLoops ==
    [][Rejected => /\ ev'.handler \in DateTextHandlers \cup IntegerHandlers
                   /\ Untouched]_vars

\* the semester was rejected and asked for again
C26_Witness ==
    /\ ev.handler = "add_course_semester"
    /\ ev.reply.text = "Please enter a number"
    /\ state[ev.key] = "ADD_COURSE_SEMESTER"

-----------------------------------------------------------------------------
(* The draft of an Add flow, field by field *)

\* the draft key each handler of a non-terminal Add state writes
DraftField ==
    [add_assignment_name |-> "assignment_name",
     add_assignment_course |-> "assignment_course",
     add_assignment_date |-> "assignment_date",
     add_assignment_date_text |-> "assignment_date",
     add_lab_name |-> "lab_name",
     add_lab_course |-> "lab_course",
     add_lab_date |-> "lab_date",
     add_lab_date_text |-> "lab_date",
     add_lab_description |-> "lab_description",
     add_project_name |-> "project_name",
     add_project_course |-> "project_course",
     add_project_date |-> "project_date",
     add_project_date_text |-> "project_date",
     add_course_name |-> "course_name",
     add_course_code |-> "course_code",
     add_course_semester |-> "course_semester",
     add_course_professor |-> "course_professor"]

\* C28: a handler of a non-terminal Add state, on an update other than Back,
\* writes no key of the scratch but the one of its own field and leaves every
\* other key as it was; when it moves the session on, its field is written.
C28_OneFieldPerState ==
    [][(ev'.handler \in DOMAIN DraftField /\ ~Pressed(back_add))
       => LET f == DraftField[ev'.handler]
          IN  /\ DOMAIN Before \subseteq DOMAIN Scratch
              /\ DOMAIN Scratch \subseteq DOMAIN Before \cup {f}
              /\ \A g \in DOMAIN Before \ {f} : Scratch[g] = Before[g]
              /\ state'[Session] \in AddStates \ {state[Session]} => f \in DOMAIN Scratch]_vars

\* the description of a lab was written after its name, course and date
C28_Witness ==
    /\ ev.handler = "add_lab_description"
    /\ state[ev.key] = "ADD_LAB_NOTES"
    /\ DOMAIN user_data[user_id(ev.key)]
          = {"lab_name", "lab_course", "lab_date", "lab_description"}


-----------------------------------------------------------------------------
(* Free-text dates, Back, /cancel and /start *)

\* the message displayed last in the session's chat still offers the Custom
\* button: Custom was not pressed since the date keyboard was shown
CustomOffered ==
    LET ms == msgs[chat_id(Session)]
    IN  ms # <<>> /\ date_custom \in ms[Len(ms)]

\* C27: a text message received in a date-selection state while the Custom
\* button has not been pressed writes no draft, issues no update and leaves
\* the session in its state.
C27_TextOnlyAfterCustom ==
    [][(ev'.handler \in DateTextHandlers /\ CustomOffered) => Untouched]_vars

\* C29: Back pressed in any state of an Add flow empties the scratch, moves
\* the session to the Add menu and issues no call to the store.
C29_BackDiscardsDraft ==
    [][(Pressed(back_add) /\ state[Session] \in AddStates)
       => /\ ~ev'.error
          /\ Scratch = EmptyDict
          /\ state'[Session] = "ADD_MENU"
          /\ ev'.calls = <<>>
          /\ db' = db]_vars

\* Back was pressed in the Description state of the lab flow, three fields in
C29_Witness ==
    /\ ev.handler = "add_lab_description"
    /\ ev.input = Callback(back_add)
    /\ state[ev.key] = "ADD_MENU"

\* /cancel and /start are answered in the state the session is in
FallbacksAnswer ==
    \A k \in Keys : state[k] # "NONE" => ENABLED cancel(k) /\ ENABLED start(k, "/start")

\* C30: in every conversation state /cancel and /start are answered, and the
\* step that answers either empties the scratch, moves the session to the
\* main menu and issues no call to the store; so the main menu is one step
\* away from every reachable state of a started session.
C30_CancelAndStart ==
    /\ []FallbacksAnswer
    /\ [][ev'.handler \in {"cancel", "start"}
          => /\ ~ev'.error
             /\ Scratch = EmptyDict
             /\ state'[Session] = "MAIN_MENU"
             /\ ev'.calls = <<>>
             /\ db' = db
             /\ writes' = writes]_vars

\* /cancel was answered in the middle of a flow: the message before the
\* answer is a prompt with the Skip button
C30_Witness ==
    /\ ev.handler = "cancel"
    /\ state[ev.key] = "MAIN_MENU"
    /\ user_data[user_id(ev.key)] = EmptyDict
    /\ msgs[chat_id(ev.key)] = <<skip_keyboard, main_menu_keyboard>>


-----------------------------------------------------------------------------
(* The status values sent to the store *)

\* the status values of the calls a handler of the button-driven flow issued
ButtonStatuses ==
    {ev'.calls[j].props.status : j \in {n \in 1..Len(ev'.calls) :
                                          /\ ev'.calls[n].op \in {"create", "update"}
                                          /\ "status" \in DOMAIN ev'.calls[n].props}}

\* the step executes a tool_use block that names an add tool with its
\* required arguments: the dispatcher calls the tool
ToolExecuted ==
    /\ dispatch.pc = "for"
    /\ dispatch'.pc = "for"
    /\ dispatch'.i = dispatch.i + 1
    /\ LET block == dispatch.response.content[dispatch.i]
       IN  /\ block.type = "tool_use"
           /\ block.name \in AddTools
           /\ {"title", "course", "due_date"} \subseteq DOMAIN block.input

\* the status values of the request the executed tool sends
DispatcherStatuses ==
    LET block == dispatch.response.content[dispatch.i]
        call == ToolCall(block.name, block.input)
    IN  IF "status" \in DOMAIN call.props THEN {call.props.status} ELSE {}

\* C22: every status value a create or update call carries, issued by a
\* handler of the button-driven flow or by the tool dispatcher for an
\* add_assignment request of the model, is one of "Not started",
\* "In progress", "Done".
C22_StatusEnumerationClosed ==
    [][/\ \A st \in ButtonStatuses : st # <<>> /\ st[1] \in StatusOptions
       /\ ToolExecuted =>
             \A st \in DispatcherStatuses : st # <<>> /\ st[1] \in StatusOptions]_vars


-----------------------------------------------------------------------------
(* The operation menu of the dispatcher *)

ListOperations == {"list_assignments", "list_labs", "list_projects"}

\* C24: the tools list submitted with a message has add_assignment, add_lab,
\* add_project, query_upcoming_work and the list operations, and no tool of
\* the submitted list is answered with "Unknown tool".
C24_MenuDispatched ==
    /\ dispatch.requests > 0
       => {"add_assignment", "add_lab", "add_project", "query_upcoming_work"}
             \cup ListOperations \subseteq dispatch.tools
    /\ \A j \in 1..Len(dispatch.tool_results) :
          dispatch.tool_results[j].content.text = "Unknown tool"
          => dispatch.tool_results[j].content.value \notin dispatch.tools


-----------------------------------------------------------------------------
(* Startup: config.py, bot.main and bot_mcp.main.  The environment is what *)
(* os.getenv returns for each name after load_dotenv                       *)

\* os.getenv of a name that is not set
None == "<None>"

\* what a name of the environment may hold: nothing, the empty string, a value
EnvValues == {None, "", "secret"}

\* not value
Falsy(value) == value \in {None, ""}

\* the module-level names config.py assigns
ConfigAttributes ==
    {"TELEGRAM_BOT_TOKEN", "NOTION_TOKEN", "ASSIGNMENTS_DB_ID", "LABS_DB_ID",
     "PROJECTS_DB_ID", "COURSES_DB_ID"}

\* the keys of required_vars, in the order of the dict
required_vars ==
    <<"TELEGRAM_BOT_TOKEN", "NOTION_TOKEN", "ASSIGNMENTS_DB_ID", "LABS_DB_ID",
      "PROJECTS_DB_ID", "COURSES_DB_ID">>

EnvNames == ConfigAttributes \cup {"ANTHROPIC_API_KEY"}

Environments == [EnvNames -> EnvValues]

\* [var_name for var_name, var_value in required_vars.items() if not var_value]
missing_vars(env) ==
    LET Missing(var_name) == Falsy(env[var_name])
    IN  SelectSeq(required_vars, Missing)

\* what main prints when it returns before the transport is built
ConfigurationError(names) == <<"Configuration error">> \o names
CannotConnect == <<"Cannot connect to Notion">>

\* an exception that leaves the module: the process ends with its traceback
AttributeError(name) == <<"AttributeError">> \o <<name>>

\* application.run_polling(): the chat transport is started
Polling == <<"run_polling">>

\* validate_config(): the ValueError's names, <<>> when it returns True
validate_config(env) == missing_vars(env)

Launched(name, env, up, result) ==
    [name |-> name, args |-> env, up |-> up, raised |-> result[1] = "AttributeError",
     result |-> result, cause |-> ""]

\* bot.py: main(), with test_connection() returning up; a process is
\* launched once
bot_main ==
    \E env \in Environments, up \in BOOLEAN :
        /\ op = NoOp
        /\ op' = Launched("bot.main", env, up,
                          IF validate_config(env) # <<>>
                          THEN ConfigurationError(validate_config(env))
                          ELSE IF ~up THEN CannotConnect
                          ELSE Polling)
        /\ UNCHANGED <<db, writes>>
        /\ FrontEndsIdle

\* bot_mcp.py: the module body reads config.ANTHROPIC_API_KEY (line 14) before
\* main() is called; main() validates, then tests the model token
bot_mcp_main ==
    \E env \in Environments :
        /\ op = NoOp
        /\ op' = Launched("bot_mcp.main", env, FALSE,
                          IF "ANTHROPIC_API_KEY" \notin ConfigAttributes
                          THEN AttributeError("ANTHROPIC_API_KEY")
                          ELSE IF validate_config(env) # <<>>
                          THEN ConfigurationError(validate_config(env))
                          ELSE IF Falsy(env["ANTHROPIC_API_KEY"])
                          THEN ConfigurationError(<<"ANTHROPIC_API_KEY">>)
                          ELSE Polling)
        /\ UNCHANGED <<db, writes>>
        /\ FrontEndsIdle

InitStartup ==
    /\ state = <<>>
    /\ user_data = <<>>
    /\ msgs = <<>>
    /\ kept = MaxMsgs
    /\ db = Store0
    /\ writes = 0
    /\ ev = NoEvent
    /\ op = NoOp
    /\ dispatch = Idle

NextStartup ==
    \/ bot_main
    \/ bot_mcp_main

SpecStartup == InitStartup /\ [][NextStartup]_vars

\* the values a front-end requires
RequiredBy(name) ==
    IF name = "bot_mcp.main" THEN EnvNames ELSE ConfigAttributes

\* the names a message lists
NamesIn(result) == {result[j] : j \in 2..Len(result)}

\* C21: when a required value of the front-end launched is absent or empty,
\* main ends with the configuration error that names exactly the missing
\* values, and the chat transport is started only when none is missing.
C21_StartupFailsFast ==
    op.name \in {"bot.main", "bot_mcp.main"}
    => LET missing == {n \in RequiredBy(op.name) : Falsy(op.args[n])}
       IN  /\ missing # {}
              => /\ op.result[1] = "Configuration error"
                 /\ NamesIn(op.result) = missing
           /\ op.result = Polling => missing = {}


-----------------------------------------------------------------------------
(* The update flows of a selected item *)

\* the session holds a selected item
Selected == {"selected_item_id", "selected_item_type"} \subseteq DOMAIN Before

\* the update is a value an update flow takes: a status button, a date
\* button, a calendar date typed, a course button, notes typed
ValueGiven ==
    \/ ev'.handler = "item_action_handler" /\ PressedLike(<<"status", "_">>)
    \/ ev'.handler = "edit_date_handler" /\ PressedLike(<<"date", "_">>)
                                         /\ ~Pressed(date_custom)
    \/ ev'.handler = "edit_date_text_handler" /\ ev'.input.data \in CalendarDateTexts
    \/ ev'.handler = "edit_course_handler" /\ PressedLike(<<"course", "_">>)
    \/ ev'.handler = "edit_notes_handler" /\ Typed

\* the update is Back in Edit Date, Edit Course or Edit Notes
BackFromEdit ==
    \/ ev'.handler \in {"edit_date_handler", "edit_course_handler"} /\ Pressed(back_add)
    \/ ev'.handler = "edit_notes_handler" /\ Pressed(back_action)

\* C31: with an item selected, a value given to an update flow issues exactly
\* one update call, for the selected item, clears the scratch and moves the
\* session to the main menu whether the update succeeded or not; Back from an
\* edit state returns to the item view with the scratch as it was and issues
\* no call.
C31_UpdateFlows ==
    [][/\ (Selected /\ ValueGiven)
          => /\ ~ev'.error
             /\ Len(ev'.calls) = 1
             /\ ev'.calls[1].op = "update"
             /\ ev'.calls[1].id = Before["selected_item_id"]
             /\ Scratch = EmptyDict
             /\ state'[Session] = "MAIN_MENU"
       /\ (Selected /\ BackFromEdit)
          => /\ ~ev'.error
             /\ ev'.calls = <<>>
             /\ db' = db
             /\ Scratch = Before
             /\ state'[Session] = "ITEM_ACTION"]_vars

\* an update of the notes of the selected item failed and the session is at
\* the main menu
C31_Witness ==
    /\ ev.handler = "edit_notes_handler"
    /\ Len(ev.calls) = 1
    /\ ev.calls[1].id # <<>>
    /\ ~ev.success
    /\ state[ev.key] = "MAIN_MENU"


-----------------------------------------------------------------------------
(* Where remote writes happen *)

\* the update is one of those that may write: Skip or a text in a terminal
\* Add state, a status press in the item view, a value given to an edit
\* state, the confirm press in the confirmation view
WritingUpdate ==
    \/ /\ ev'.handler \in TerminalHandlers
       /\ \E t \in Collections : state[Session] = LastState(t)
       /\ Pressed(skip) \/ Typed
       /\ \A j \in 1..Len(ev'.calls) : ev'.calls[j].op = "create"
    \/ /\ ValueGiven
       /\ state[Session] \in {"ITEM_ACTION", "EDIT_DATE", "EDIT_COURSE", "EDIT_NOTES"}
       /\ \A j \in 1..Len(ev'.calls) : ev'.calls[j].op = "update"
    \/ /\ ev'.handler = "confirm_delete_handler"
       /\ state[Session] = "CONFIRM_DELETE"
       /\ PressedLike(<<"confirm", "delete", "_">>)
       /\ \A j \in 1..Len(ev'.calls) : ev'.calls[j].op = "archive"

\* C32: a step that issues a create, update or archive call, or that changes
\* the store, is a writing update; menu navigation, list and upcoming views,
\* item selection, Back and Cancel issue none.
C32_WritesOnlyAtTerminals ==
    [][(ev'.calls # <<>> \/ db' # db) => (ev'.calls # <<>> /\ WritingUpdate)]_vars

\* the upcoming view was rendered and nothing was written
C32_Witness ==
    /\ ev.handler = "upcoming_menu_handler"
    /\ ev.reply.how # "none"
    /\ ev.calls = <<>>
    /\ writes = 0


-----------------------------------------------------------------------------
(* The selection behind the item views *)

ItemStates == {"ITEM_ACTION", "EDIT_DATE", "EDIT_COURSE", "EDIT_NOTES", "CONFIRM_DELETE"}

\* the scratch holds the id of a record of the collection it names
SelectionHeld(data) ==
    /\ Has(data, {"selected_item_id", "selected_item_type"})
    /\ \E t \in WorkTypes :
          /\ data["selected_item_type"] = <<t>>
          /\ \E j \in 1..Len(db[t]) : db[t][j].id = data["selected_item_id"]

\* C33: in the item view, the edit states and the confirmation view the
\* scratch holds the full id of a record of the collection that was listed,
\* and that collection's type; no update or archive call carries an empty id.
C33_SelectionAlwaysHeld ==
    /\ [](\A k \in Keys : state[k] \in ItemStates => SelectionHeld(user_data[user_id(k)]))
    /\ [][\A j \in 1..Len(ev'.calls) :
             ev'.calls[j].op \in {"update", "archive"} => ev'.calls[j].id # <<>>]_vars


-----------------------------------------------------------------------------
(* The record a button names and the record a call targets *)

\* the id prefix in the payload of a status button, status_<type>_<id>_<status>,
\* and of a confirm button, confirmdelete_<type>_<id>
NamedByButton ==
    IF PressedLike(<<"status", "_">>) THEN Split(ev'.input.data, 3)[3]
    ELSE Split(ev'.input.data, 2)[3]

\* C34: the update a status button causes and the archive a confirm button
\* causes target a record whose id starts with the id prefix in the payload
\* of the button pressed, on whichever message of the chat the button is.
C34_TargetIsButtonsRecord ==
    [][(/\ \/ ev'.handler = "item_action_handler" /\ PressedLike(<<"status", "_">>)
           \/ ev'.handler = "confirm_delete_handler"
                 /\ PressedLike(<<"confirm", "delete", "_">>)
        /\ ev'.calls # <<>>)
       => StartsWith(ev'.calls[1].id, NamedByButton)]_vars


-----------------------------------------------------------------------------
(* The draft behind each state of an Add flow *)

\* the draft keys the states of each flow write, in the order of the states
FieldSequence ==
    [assignment |-> <<"assignment_name", "assignment_course", "assignment_date">>,
     lab |-> <<"lab_name", "lab_course", "lab_date", "lab_description">>,
     project |-> <<"project_name", "project_course", "project_date">>,
     course |-> <<"course_name", "course_code", "course_semester", "course_professor">>]

\* the handlers of the Add states
AddHandlers == DOMAIN DraftField \cup TerminalHandlers

\* C35: a session in the n-th state of an Add flow, n > 1, holds in its draft
\* the fields of the n - 1 states before it, and no handler of an Add state
\* fails on a missing draft field.
C35_DraftComplete ==
    /\ [](\A k \in Keys : \A t \in Collections : \A n \in 2..Len(StateSequence[t]) :
             state[k] = StateSequence[t][n]
             => {FieldSequence[t][m] : m \in 1..(n - 1)} \subseteq DOMAIN user_data[user_id(k)])
    /\ [][ev'.handler \in AddHandlers => ~ev'.error]_vars

\* a course was created from a draft with its four fields
C35_Witness ==
    /\ ev.handler = "add_course_ects"
    /\ ev.success
    /\ state[ev.key] = "MAIN_MENU"


-----------------------------------------------------------------------------
(* The course codes and due dates sent to the store *)

\* the calls of the step that carry this property
CallsWith(prop) ==
    {j \in 1..Len(ev'.calls) :
        /\ ev'.calls[j].op \in {"create", "update"}
        /\ ev'.calls[j].coll # "course"
        /\ prop \in DOMAIN ev'.calls[j].props}

\* C36: the course code of a create of a work item or of an update is the
\* code of a course that the course pick-list offers.
C36_CourseFromPickList ==
    [][\A j \in CallsWith("CourseCode") :
          /\ ev'.calls[j].props.CourseCode # <<>>
          /\ <<"course", "_">> \o ev'.calls[j].props.CourseCode[1]
                \in courses_keyboard(list_courses(db, TRUE))]_vars

-----------------------------------------------------------------------------
(* The due date the button-driven flow sends *)

\* the dates of the three date buttons (date_keyboard, bot.py 208-224)
ButtonDates == {IsoOf(Today), IsoOf(PlusDays(Today, 1)), IsoOf(PlusDays(Today, 7))}

\* C37: the due date of every create and of every update the button-driven
\* flow sends to the store is a well-formed calendar date: one of the three
\* button dates, or a text that passes the date-format check; also when
\* buttons of older messages are pressed.
C37_DueDateWellFormed ==
    [][\A j \in CallsWith("DueDate") :
          /\ ev'.calls[j].props.DueDate # <<>>
          /\ \/ ev'.calls[j].props.DueDate[1] \in ButtonDates
             \/ StrptimeOk(ev'.calls[j].props.DueDate[1])]_vars

-----------------------------------------------------------------------------
(* The result of an add invocation *)

\* the collection an add tool creates a page in
CollectionOf(name) ==
    CASE name = "add_assignment" -> "assignment"
      [] name = "add_lab" -> "lab"
      [] name = "add_project" -> "project"

\* the step handles a tool_use block that names an add tool
AddInvoked ==
    /\ dispatch.pc = "for"
    /\ dispatch.i <= Len(dispatch.response.content)
    /\ dispatch' # dispatch
    /\ dispatch.response.content[dispatch.i].type = "tool_use"
    /\ dispatch.response.content[dispatch.i].name \in AddTools

\* the step left a new page in the collection of the invoked tool, holding
\* the title of the invocation
PageCreated ==
    LET block == dispatch.response.content[dispatch.i]
        coll == CollectionOf(block.name)
    IN  /\ Len(db'[coll]) = Len(db[coll]) + 1
        /\ "title" \in DOMAIN block.input
        /\ db'[coll][Len(db'[coll])].props.Title = <<block.input.title>>

\* C38: the result the dispatcher keeps for an add_assignment, add_lab or
\* add_project invocation says "added successfully" only if the step created
\* the page in the store; when no page was created the result of that
\* invocation is the error text.
C38_AddedOnlyIfCreated ==
    [][AddInvoked =>
          /\ dispatch'.pc = "for"
          /\ Len(dispatch'.tool_results) = Len(dispatch.tool_results) + 1
          /\ LET result == dispatch'.tool_results[Len(dispatch'.tool_results)]
             IN  /\ result.tool_use_id = dispatch.response.content[dispatch.i].id
                 /\ result.content.text = "added successfully" => PageCreated
                 /\ ~PageCreated => result.content = ErrorResult /\ db' = db]_vars

\* the first round's add_assignment created its page and was answered with
\* success; in the second round the add with a status the store does not
\* have was answered with the error text
C38_Witness ==
    /\ dispatch.pc = "for"
    /\ dispatch.rounds = 1
    /\ dispatch.messages[3].content[1].tool_use_id = "toolu_1"
    /\ dispatch.messages[3].content[1].content.text = "added successfully"
    /\ \E j \in 1..Len(db.assignment) : db.assignment[j].props.Title = <<<<"Homework 3">>>>
    /\ Len(dispatch.tool_results) = 1
    /\ dispatch.tool_results[1].tool_use_id = "toolu_6"
    /\ dispatch.tool_results[1].content = ErrorResult

-----------------------------------------------------------------------------
(* The two adapters over one workspace *)

\* the key of a database in the result of an upcoming query
UpcomingKeyOf == [assignment |-> "assignments", lab |-> "labs", project |-> "projects"]

WorkAdds == {"add_assignment", "add_lab", "add_project"}

\* C39: a work item created through mcp_server.py is in the list of the same
\* database of notion_service.py with the submitted name, course code and
\* due date; a work item created through notion_service.py is in the list of
\* mcp_server.py, and in its upcoming query when due in the window, with the
\* submitted name as its title.
C39_AdaptersAgree ==
    [][Created(op)
       => LET sent == op.args
              listed == op'.result
          IN  /\ (/\ op.name \in ToolWrites
                  /\ op'.name = "list" /\ op'.args = AddsTo[op.name] /\ op'.up)
                 => \E j \in 1..Len(listed) :
                       /\ listed[j].name = sent.name
                       /\ listed[j].course_code = sent.course_code
                       /\ listed[j].due_date = sent.due_date
              /\ (/\ op.name \in WorkAdds
                  /\ op'.name = "list_all_from_database" /\ op'.args = AddsTo[op.name]
                  /\ op'.up)
                 => \E j \in 1..Len(listed) : listed[j].title = sent.name
              /\ (/\ op.name \in WorkAdds
                  /\ op'.name = "query_upcoming_work"
                  /\ op'.up = <<TRUE, TRUE, TRUE>>
                  /\ DateValue(sent.due_date) >= DateValue(IsoOf(Today))
                  /\ DateValue(sent.due_date) <= DateValue(IsoOf(PlusDays(Today, op'.args))))
                 => \E j \in 1..Len(listed[UpcomingKeyOf[AddsTo[op.name]]]) :
                       listed[UpcomingKeyOf[AddsTo[op.name]]][j].title = sent.name]_vars

====
